---- MODULE Spec2Model ----
(***************************************************************************)
(* Model of the Cnav calendar engine (cnav/calendar.py, cnav/dtmath.py):   *)
(* the Calendar class with its configurable Julian/Gregorian reform, the   *)
(* proleptic Julian and Gregorian day-number algorithms it is composed of, *)
(* and the module-level Meeus JD / MJD functions.                          *)
(*                                                                         *)
(* A call returns a record [err, val]: err is "none" for a normal return   *)
(* and otherwise the name of the exception raised; val is the returned     *)
(* tuple (<<jd>> for a day number, <<y, m, d>> for a date, <<>> when the   *)
(* call raised).                                                           *)
(***************************************************************************)
EXTENDS Integers, Sequences, FiniteSets, TLC

VARIABLES
    impl,                    \* which Calendar class: "calendar" or "dtmath"
    gregorian_reform_date,   \* self._gregorian_reform_date
    reform,                  \* self.reform = (jdl, jdh)
    lastset,                 \* history: the last set* call that returned
    op,                      \* the method the caller last called, "idle" between calls
    arg,                     \* its arguments
    out,                     \* what it returned or raised
    chain                    \* the call whose result was fed to this one

vars == <<impl, gregorian_reform_date, reform, lastset, op, arg, out, chain>>

-----------------------------------------------------------------------------
(* Bounds of the explored inputs *)

YearWindow == 1
JdWindow == 3

(* Program constants *)

MINYEAR == -4712
MAXYEAR == 9999
JD0 == 1721423
GD0 == JD0 + 2
default == 0
julian == 1
gregorian == 2
mixed == 3

-----------------------------------------------------------------------------
(* Results *)

Ok(v) == [err |-> "none", val |-> v]
Raise(e) == [err |-> e, val |-> <<>>]
NoCall == [op |-> "none", arg |-> <<>>, out |-> Ok(<<>>)]

(* Python tuple comparison a >= b on triples *)
TupleGE(a, b) ==
    \/ a[1] > b[1]
    \/ a[1] = b[1] /\ a[2] > b[2]
    \/ a[1] = b[1] /\ a[2] = b[2] /\ a[3] >= b[3]

TupleLT(a, b) == ~TupleGE(a, b)

mdays(month) ==
    CASE month = 2 -> 28
      [] month \in {4, 6, 9, 11} -> 30
      [] OTHER -> 31

-----------------------------------------------------------------------------
(* Proleptic Gregorian calendar *)

_is_gregorian_leapyear(year) ==
    IF year % 4 = 0
    THEN IF year % 400 = 0
         THEN TRUE
         ELSE IF year % 100 = 0 THEN FALSE ELSE TRUE
    ELSE FALSE

(* mutant: the 400-year term of the ordinal is forgotten *)
_GD0_no400(gr_year, gr_month, gr_day) ==
    LET y == gr_year - 1
        ord1 == 365 * y + (y \div 4) - (y \div 100)
        ord2 == ord1 + ((367 * gr_month - 362) \div 12)
        ord3 == IF gr_month > 2
                THEN IF gr_year % 4 = 0 /\ (gr_year % 100 # 0 \/ gr_year % 400 = 0)
                     THEN ord2 - 1 ELSE ord2 - 2
                ELSE ord2
    IN  ord3 + gr_day

_GD0(gr_year, gr_month, gr_day) ==
    LET y == gr_year - 1
        ord1 == 365 * y + (y \div 4) - (y \div 100) + (y \div 400)
        ord2 == ord1 + ((367 * gr_month - 362) \div 12)
        ord3 == IF gr_month > 2
                THEN IF _is_gregorian_leapyear(gr_year) THEN ord2 - 1 ELSE ord2 - 2
                ELSE ord2
    IN  ord3 + gr_day

_GD(gr_year, gr_month, gr_day) == _GD0(gr_year, gr_month, gr_day) + GD0

_RGD(jd) ==
    LET d == jd - GD0 - 1
        n400 == d \div 146097
        d1 == d % 146097
        n100 == d1 \div 36524
        d2 == d1 % 36524
        n4 == d2 \div 1461
        d3 == d2 % 1461
        n1 == d3 \div 365
        y0 == 400 * n400 + 100 * n100 + 4 * n4 + n1
        y == IF ~(n1 = 4 \/ n100 = 4) THEN y0 + 1 ELSE y0
        p == d3 % 365
        c == IF _is_gregorian_leapyear(y)
             THEN IF p < 60 THEN 0 ELSE 1
             ELSE IF p < 59 THEN 0 ELSE 2
        m == (12 * (p + c) + 373) \div 367
    IN  IF n1 # 4 /\ n100 # 4
        THEN <<y, m, d - _GD0(y, m, 0) + 1>>
        ELSE <<y, 12, 31>>

-----------------------------------------------------------------------------
(* Proleptic Julian calendar *)

_is_julian_leapyear(year) == year % 4 = 0

(* mutant: the leap-year correction after February is the wrong way round *)
_JD0_swapped(j_year, j_month, j_day) ==
    LET y == j_year - 1
        ord1 == 365 * y + (y \div 4)
        ord2 == ord1 + ((367 * j_month - 362) \div 12)
        ord3 == IF j_month > 2
                THEN IF j_year % 4 = 0 THEN ord2 - 2 ELSE ord2 - 1
                ELSE ord2
    IN  ord3 + j_day

_JD0(j_year, j_month, j_day) ==
    LET y == j_year - 1
        ord1 == 365 * y + (y \div 4)
        ord2 == ord1 + ((367 * j_month - 362) \div 12)
        ord3 == IF j_month > 2
                THEN IF _is_julian_leapyear(j_year) THEN ord2 - 1 ELSE ord2 - 2
                ELSE ord2
    IN  ord3 + j_day

_JD(j_year, j_month, j_day) == _JD0(j_year, j_month, j_day) + JD0

_RJD(jd) ==
    LET d == jd - JD0 - 1
        year == (4 * d + 1464) \div 1461
        p == d - _JD0(year, 1, 0)
        c == IF _is_julian_leapyear(year)
             THEN IF p < 60 THEN 0 ELSE 1
             ELSE IF p < 59 THEN 0 ELSE 2
        m == (12 * (p + c) + 373) \div 367
    IN  <<year, m, d - _JD0(year, m, 0) + 1>>

-----------------------------------------------------------------------------
(* cnav.calendar.Calendar: queries on the configured engine *)

(* mutant: the reform date itself still counts as Julian *)
is_gregorian_strict(year, month, day) ==
    <<year, month, day>> # gregorian_reform_date
        /\ TupleGE(<<year, month, day>>, gregorian_reform_date)

is_gregorian(year, month, day) ==
    TupleGE(<<year, month, day>>, gregorian_reform_date)

(* mutant: the rule is chosen by January 1 instead of February 29 *)
is_leapyear_jan1(year) ==
    IF TupleGE(<<year, 1, 1>>, gregorian_reform_date)
    THEN year % 4 = 0 /\ (year % 100 # 0 \/ year % 400 = 0)
    ELSE year % 4 = 0

is_leapyear(year) ==
    IF is_gregorian(year, 2, 29)
    THEN _is_gregorian_leapyear(year)
    ELSE _is_julian_leapyear(year)

(* mutant: the year is not checked *)
_check_date_fields_noyear(year, month, day, calendar) ==
    IF ~(1 <= month /\ month <= 12) THEN Raise("ValueError")
    ELSE LET leap == IF calendar \in {default, mixed}
                     THEN (IF TupleGE(<<year, 2, 29>>, gregorian_reform_date)
                           THEN _is_gregorian_leapyear(year) ELSE year % 4 = 0)
                     ELSE IF calendar = gregorian THEN _is_gregorian_leapyear(year)
                     ELSE year % 4 = 0
             dmax == IF month = 2 /\ leap THEN mdays(month) + 1 ELSE mdays(month)
         IN  IF ~(1 <= day /\ day <= dmax) THEN Raise("ValueError")
             ELSE Ok(<<year, month, day>>)

_check_date_fields(year, month, day, calendar) ==
    IF ~(MINYEAR <= year /\ year <= MAXYEAR) THEN Raise("ValueError")
    ELSE IF ~(1 <= month /\ month <= 12) THEN Raise("ValueError")
    ELSE IF calendar \notin {default, mixed, gregorian, julian} THEN Raise("ValueError")
    ELSE LET leap == IF calendar \in {default, mixed} THEN is_leapyear(year)
                     ELSE IF calendar = gregorian THEN _is_gregorian_leapyear(year)
                     ELSE _is_julian_leapyear(year)
             dmax == IF month = 2 /\ leap THEN mdays(month) + 1 ELSE mdays(month)
         IN  IF ~(1 <= day /\ day <= dmax) THEN Raise("ValueError")
             ELSE Ok(<<year, month, day>>)

(* mutant: the first day of the gap is let through *)
Calendar_JD_opengap(year, month, day) ==
    LET chk == _check_date_fields(year, month, day, mixed)
        jd == _JD(year, month, day)
    IN  IF chk.err # "none" THEN chk
        ELSE IF is_gregorian(year, month, day) THEN Ok(<<_GD(year, month, day)>>)
        ELSE IF jd > reform[1] /\ jd < reform[2] THEN Raise("ValueError")
        ELSE Ok(<<jd>>)

Calendar_JD(year, month, day) ==
    LET chk == _check_date_fields(year, month, day, mixed)
        jd == _JD(year, month, day)
    IN  IF chk.err # "none" THEN chk
        ELSE IF is_gregorian(year, month, day) THEN Ok(<<_GD(year, month, day)>>)
        ELSE IF jd >= reform[1] /\ jd < reform[2] THEN Raise("ValueError")
        ELSE Ok(<<jd>>)

(* mutant: the inverse branches at the high end of the gap *)
Calendar_RJD_high(jd) ==
    LET t == IF jd >= reform[2] THEN _RGD(jd) ELSE _RJD(jd)
    IN  _check_date_fields(t[1], t[2], t[3], mixed)

Calendar_RJD(jd) ==
    LET t == IF jd >= reform[1] THEN _RGD(jd) ELSE _RJD(jd)
    IN  _check_date_fields(t[1], t[2], t[3], mixed)

-----------------------------------------------------------------------------
(* cnav.dtmath.Calendar: the older copy of the class, imported by dt2.     *)
(* Its _GD, _JD, _RGD, _RJD, is_gregorian and is_leapyear are line for     *)
(* line those of cnav.calendar.Calendar and are shared here.               *)

dtmath_Calendar_JD(year, month, day) ==
    LET gdmax == IF month = 2 /\ _is_gregorian_leapyear(year)
                 THEN mdays(month) + 1 ELSE mdays(month)
        jdmax == IF _is_julian_leapyear(year)
                 THEN mdays(month) + 1 ELSE mdays(month)
        jd == _JD(year, month, day)
    IN  IF ~(-4712 <= year /\ year <= MAXYEAR /\ 1 <= month /\ month <= 12 /\ day >= 1)
        THEN Raise("AssertionError")
        ELSE IF is_gregorian(year, month, day)
        THEN IF day <= gdmax THEN Ok(<<_GD(year, month, day)>>)
             ELSE Raise("AssertionError")
        ELSE IF ~(day <= jdmax) THEN Raise("AssertionError")
        ELSE IF jd >= reform[1] /\ jd < reform[2] THEN Raise("ValueError")
        ELSE Ok(<<jd>>)

dtmath_Calendar_RJD(jd) ==
    IF jd >= reform[1] THEN Ok(_RGD(jd)) ELSE Ok(_RJD(jd))

-----------------------------------------------------------------------------
(* Module-level Meeus functions (calendar.py and dtmath.py hold the same   *)
(* code).  JD returns a float that is a half-integer for an integer day;   *)
(* the model carries it exactly, in half days: val = <<2 * jd>>.           *)

(* int(a / b) for b > 0: float division, truncated toward zero *)
TruncDiv(a, b) == IF a >= 0 THEN a \div b ELSE -((-a) \div b)

(* (YYYY + MM/12) * 365.25 + DD < 578140, in units of 1/48 day *)
MeeusJulianBranch(YYYY, MM, DD) ==
    (12 * YYYY + MM) * 1461 + 48 * DD < 578140 * 48

(* int(365.25*(Y+4716)) + int(30.6001*(M+1)) + DD + B *)
MeeusDays(YYYY, MM, DD) ==
    LET Y == IF MM <= 2 THEN YYYY - 1 ELSE YYYY
        M == IF MM <= 2 THEN MM + 12 ELSE MM
        A == TruncDiv(Y, 100)
        B == IF MeeusJulianBranch(YYYY, MM, DD) THEN 0 ELSE 2 - A + TruncDiv(A, 4)
    IN  TruncDiv(1461 * (Y + 4716), 4) + TruncDiv(306001 * (M + 1), 10000) + DD + B

JD(YYYY, MM, DD) ==
    IF YYYY < -4712 THEN Raise("OverflowError")
    ELSE IF YYYY = 1582 /\ MM = 10 /\ ~(DD <= 4 \/ DD >= 15) THEN Raise("AssertionError")
    ELSE Ok(<<2 * MeeusDays(YYYY, MM, DD) - 3049>>)

(* JD(YYYY, MM, DD + 0.5): the same function at noon of day DD.  The test  *)
(* of the gap and the branch heuristic see the half day as well.           *)
JD_noon(YYYY, MM, DD) ==
    LET Y == IF MM <= 2 THEN YYYY - 1 ELSE YYYY
        M == IF MM <= 2 THEN MM + 12 ELSE MM
        A == TruncDiv(Y, 100)
        B == IF (12 * YYYY + MM) * 1461 + 48 * DD + 24 < 578140 * 48
             THEN 0 ELSE 2 - A + TruncDiv(A, 4)
    IN  IF YYYY < -4712 THEN Raise("OverflowError")
        ELSE IF YYYY = 1582 /\ MM = 10 /\ ~(DD <= 3 \/ DD >= 15) THEN Raise("AssertionError")
        ELSE Ok(<<2 * (TruncDiv(1461 * (Y + 4716), 4)
                       + TruncDiv(306001 * (M + 1), 10000) + DD + B) + 1 - 3049>>)

(* mutant: the modified day number is counted from noon *)
MJD_noon(YYYY, MM, DD) ==
    IF YYYY < -4712 THEN Raise("OverflowError")
    ELSE IF YYYY = 1582 /\ MM = 10 /\ ~(DD <= 4 \/ DD >= 15) THEN Raise("AssertionError")
    ELSE Ok(<<MeeusDays(YYYY, MM, DD) - 2401524>>)

MJD(YYYY, MM, DD) ==
    IF YYYY < -4712 THEN Raise("OverflowError")
    ELSE IF YYYY = 1582 /\ MM = 10 /\ ~(DD <= 4 \/ DD >= 15) THEN Raise("AssertionError")
    ELSE Ok(<<MeeusDays(YYYY, MM, DD) - 2401525>>)

(* mutant: the first Gregorian day is still converted as a Julian one *)
RJD_late(jd2) ==
    IF jd2 < -1 THEN Raise("OverflowError")
    ELSE
    LET Z == TruncDiv(jd2 + 1, 2)
        F2 == jd2 + 1 - 2 * Z
        alpha == TruncDiv(4 * Z - 7468865, 146097)
        A == IF Z <= 2299161 THEN Z ELSE Z + 1 + alpha - TruncDiv(alpha, 4)
        B == A + 1524
        C == TruncDiv(20 * B - 2442, 7305)
        D == TruncDiv(1461 * C, 4)
        E == TruncDiv(10000 * (B - D), 306001)
        DD == B - D - TruncDiv(306001 * E, 10000)
        MM == IF E < 14 THEN E - 1 ELSE E - 13
        YYYY == IF MM > 2 THEN C - 4716 ELSE C - 4715
    IN  IF ~(MM >= 1 /\ MM <= 12) THEN Raise("AssertionError")
        ELSE Ok(<<YYYY, MM, DD, F2>>)

(* RJD(jd): jd2 is the argument in half days (jd = jd2 / 2); the day       *)
(* fraction F of the result is carried in half days as well.               *)
(*   jd5 = jd + 0.5                 -> (jd2 + 1) / 2                        *)
(*   int((Z - 1867216.25)/36524.25) -> (4 Z - 7468865) / 146097             *)
(*   int((B - 122.1) / 365.25)      -> (20 B - 2442) / 7305                 *)
(*   int((B - D) / 30.6001)         -> 10000 (B - D) / 306001               *)
RJD(jd2) ==
    IF jd2 < -1 THEN Raise("OverflowError")
    ELSE
    LET Z == TruncDiv(jd2 + 1, 2)
        F2 == jd2 + 1 - 2 * Z
        alpha == TruncDiv(4 * Z - 7468865, 146097)
        A == IF Z < 2299161 THEN Z ELSE Z + 1 + alpha - TruncDiv(alpha, 4)
        B == A + 1524
        C == TruncDiv(20 * B - 2442, 7305)
        D == TruncDiv(1461 * C, 4)
        E == TruncDiv(10000 * (B - D), 306001)
        DD == B - D - TruncDiv(306001 * E, 10000)
        MM == IF E < 14 THEN E - 1 ELSE E - 13
        YYYY == IF MM > 2 THEN C - 4716 ELSE C - 4715
    IN  IF ~(MM >= 1 /\ MM <= 12) THEN Raise("AssertionError")
        ELSE Ok(<<YYYY, MM, DD, F2>>)

(* RMJD(mjd) = RJD(mjd + MJD0)[:3], mjd2 in half days; MJD0 = 2400000.5 *)
RMJD(mjd2) ==
    LET r == RJD(mjd2 + 4800001)
    IN  IF r.err # "none" THEN r ELSE Ok(SubSeq(r.val, 1, 3))

-----------------------------------------------------------------------------
(* Module-level proleptic calendars of dtmath.py (calendar.py holds the    *)
(* same code).  JDg and JDj return floats that end in .5; the day numbers  *)
(* are carried in half days, as for the Meeus functions.                   *)

is_gregorian_leapyear(year) ==
    IF year % 4 = 0
    THEN IF year % 400 = 0 THEN TRUE
         ELSE IF year % 100 = 0 THEN FALSE ELSE TRUE
    ELSE FALSE

GD(gryear, grmonth, grday) ==
    LET y == gryear - 1
        ord0 == 365 * y + (y \div 4) - (y \div 100) + (y \div 400)
        ord1 == ord0 + ((367 * grmonth - 362) \div 12)
        ord2 == IF grmonth > 2
                THEN IF is_gregorian_leapyear(gryear) THEN ord1 - 1 ELSE ord1 - 2
                ELSE ord1
    IN  ord2 + grday

(* mutant: the scale is matched at a date before the reform *)
GDALIGN_1500 == JD(1500, 1, 1).val[1] - 2 * GD(1500, 1, 1)

(* GDALIGN = JD(2000, 1, 1) - GD(2000, 1, 1), in half days *)
GDALIGN == JD(2000, 1, 1).val[1] - 2 * GD(2000, 1, 1)

JDg(gr_year, gr_month, gr_day) == 2 * GD(gr_year, gr_month, gr_day) + GDALIGN

(* RJDg(jd), jd2 = 2 * jd; every length below is in half days and the      *)
(* final int(d) truncates the half day of a whole-numbered jd              *)
RJDg(jd2) ==
    LET d == jd2 - GDALIGN - 2
        n400 == d \div (2 * 146097)
        d1 == d % (2 * 146097)
        n100 == d1 \div (2 * 36524)
        d2 == d1 % (2 * 36524)
        n4 == d2 \div (2 * 1461)
        d3 == d2 % (2 * 1461)
        n1 == d3 \div (2 * 365)
        y0 == 400 * n400 + 100 * n100 + 4 * n4 + n1
        y == IF ~(n1 = 4 \/ n100 = 4) THEN y0 + 1 ELSE y0
        p == d3 % (2 * 365)
        c == IF is_gregorian_leapyear(y)
             THEN IF p < 2 * 60 THEN 0 ELSE 1
             ELSE IF p < 2 * 59 THEN 0 ELSE 2
        m == (12 * (p + 2 * c) + 2 * 373) \div (2 * 367)
    IN  IF n1 # 4 /\ n100 # 4
        THEN <<y, m, TruncDiv(d - 2 * GD(y, m, 0) + 2, 2)>>
        ELSE <<y, 12, 31>>

is_julian_leapyear(year) == year % 4 = 0

(* mutant: the leap days before year 1 are counted by truncation *)
JJD_trunc(j_year, j_month, j_day) ==
    LET y == j_year - 1
        ord0 == 365 * y + TruncDiv(y, 4)
        ord1 == ord0 + ((367 * j_month - 362) \div 12)
        ord2 == IF j_month > 2
                THEN IF is_julian_leapyear(j_year) THEN ord1 - 1 ELSE ord1 - 2
                ELSE ord1
    IN  ord2 + j_day

JJD(j_year, j_month, j_day) ==
    LET y == j_year - 1
        ord0 == 365 * y + (y \div 4)
        ord1 == ord0 + ((367 * j_month - 362) \div 12)
        ord2 == IF j_month > 2
                THEN IF is_julian_leapyear(j_year) THEN ord1 - 1 ELSE ord1 - 2
                ELSE ord1
    IN  ord2 + j_day

(* JDALIGN = JD(-4712, 1, 1) - JJD(-4712, 1, 1), in half days *)
JDALIGN == JD(-4712, 1, 1).val[1] - 2 * JJD(-4712, 1, 1)

JDj(j_year, j_month, j_day) == 2 * JJD(j_year, j_month, j_day) + JDALIGN

(* RJDj(jd), jd2 = 2 * jd *)
RJDj(jd2) ==
    LET d == jd2 - JDALIGN - 2
        year == (4 * d + 2 * 1464) \div (2 * 1461)
        p == d - 2 * JJD(year, 1, 0)
        c == IF is_julian_leapyear(year)
             THEN IF p < 2 * 60 THEN 0 ELSE 1
             ELSE IF p < 2 * 59 THEN 0 ELSE 2
        m == (12 * (p + 2 * c) + 2 * 373) \div (2 * 367)
    IN  <<year, m, TruncDiv(d - 2 * JJD(year, m, 0) + 2, 2)>>

-----------------------------------------------------------------------------
(* Weekdays of the engine (calendar.py).  jd is a whole day number.        *)

wdays ==
    [n \in 0..6 |->
        CASE n = 0 -> "Sunday" [] n = 1 -> "Monday" [] n = 2 -> "Tuesday"
          [] n = 3 -> "Wednesday" [] n = 4 -> "Thursday" [] n = 5 -> "Friday"
          [] n = 6 -> "Saturday"]

(* mutant: the week starts on Monday *)
weekday_monday(jd) == TruncDiv(2 * jd + 1, 2) % 7

(* int((jd + 1.5)) % 7 *)
weekday(jd) == TruncDiv(2 * jd + 3, 2) % 7

weekday_str(jd) == wdays[weekday(jd)]

(* int((jd + 0.5)) % 7 + 1 *)
isoweekday(jd) == (TruncDiv(2 * jd + 1, 2) % 7) + 1

-----------------------------------------------------------------------------
(* ISO week dates of the engine (calendar.py) *)

(* the module-level is_gregorian of calendar.py, which G2I calls:          *)
(* (YYYY + MM/12) * 365.25 + DD > 578140, in units of 1/48 day             *)
(* Every term is a multiple of 1/48, so the float value differs from       *)
(* 578140 by at least 1/48 unless it is equal, far more than the rounding  *)
(* error of the float operations: the comparison is the exact one.         *)

(* mutant: the month is left out of the heuristic *)
calendar_is_gregorian_nomonth(YYYY, MM, DD) ==
    (12 * YYYY) * 1461 + 48 * DD > 578140 * 48

calendar_is_gregorian(YYYY, MM, DD) ==
    (12 * YYYY + MM) * 1461 + 48 * DD > 578140 * 48

(* mutant: only the last day of the year is looked at *)
_iso_weeks_in_year_dec31(year) ==
    LET py == year + (year \div 4) - (year \div 100) + (year \div 400)
    IN  IF py % 7 = 4 THEN 53 ELSE 52

_iso_weeks_in_year(year) ==
    LET py == year + (year \div 4) - (year \div 100) + (year \div 400)
        y == year - 1
        pym1 == y + (y \div 4) - (y \div 100) + (y \div 400)
    IN  IF py % 7 = 4 \/ pym1 % 7 = 3 THEN 53 ELSE 52

I2G(year, week, day) ==
    IF ~(MINYEAR <= year /\ year <= MAXYEAR) THEN Raise("ValueError")
    ELSE IF ~(1 <= day /\ day <= 7) THEN Raise("ValueError")
    ELSE IF ~(1 <= week /\ week <= _iso_weeks_in_year(year)) THEN Raise("ValueError")
    ELSE
    LET jd_1_1 == _GD(year, 1, 1)
        weekday_1_1 == isoweekday(jd_1_1)
        first_thursday == ((4 - weekday_1_1) % 7) + 1
        jd_first_thursday == _GD(year, 1, first_thursday)
        days_from_first_thursday == 7 * (week - 1) + day - 4
        jd == jd_first_thursday + days_from_first_thursday
    IN  Ok(_RGD(jd))

G2I(gr_year, gr_month, gr_day) ==
    LET chk == _check_date_fields(gr_year, gr_month, gr_day, mixed)
        jd == _GD(gr_year, gr_month, gr_day)
        iso_weekday == isoweekday(jd)
        jd_thursday == jd + 4 - iso_weekday
        iso_year == _RGD(jd_thursday)[1]
        jd_1_1 == _GD(iso_year, 1, 1)
        weekday_1_1 == isoweekday(jd_1_1)
        first_thursday == ((4 - weekday_1_1) % 7) + 1
        jd_first_thursday == _GD(iso_year, 1, first_thursday)
        iso_weeknum == ((jd_thursday - jd_first_thursday) \div 7) + 1
    IN  IF ~calendar_is_gregorian(gr_year, gr_month, gr_day) THEN Raise("ValueError")
        ELSE IF chk.err # "none" THEN chk
        ELSE Ok(<<iso_year, iso_weeknum, iso_weekday>>)

-----------------------------------------------------------------------------
(* Date and TimeDelta of dt2.py.  A Date is carried as <<year, month,      *)
(* day>>, a TimeDelta as its total length in hours (resolution = 24).      *)

(* dtmath.is_gregorian, imported by dt2 *)
dtmath_is_gregorian(YYYY, MM, DD) ==
    (12 * YYYY + MM) * 1461 + 48 * DD > 578140 * 48

(* dtmath.weekday_nr(jd), jd2 = 2 * jd *)
weekday_nr(jd2) == TruncDiv(jd2 + 3, 2) % 7

(* dt2._check_date_fields.  dt2 does not import is_leapyear, so for        *)
(* month == 2 the evaluation of is_leapyear(year) raises NameError.        *)
dt2_check_date_fields(year, month, day) ==
    IF ~(MINYEAR <= year /\ year <= MAXYEAR) THEN Raise("ValueError")
    ELSE IF ~(1 <= month /\ month <= 12) THEN Raise("ValueError")
    ELSE IF month = 2 THEN Raise("NameError")
    ELSE IF ~(1 <= day /\ day <= mdays(month)) THEN Raise("ValueError")
    ELSE IF year = 1582 /\ month = 10 /\ day > 4 /\ day < 15 THEN Raise("ValueError")
    ELSE Ok(<<year, month, day>>)

(* Date(year, month, day) *)
Date_new(year, month, day) == dt2_check_date_fields(year, month, day)

(* Date.mjd of a constructed date *)
Date_mjd(date) == MJD(date[1], date[2], date[3]).val[1]

min_mjd == MJD(MINYEAR, 1, 1).val[1]
max_mjd == MJD(MAXYEAR, 12, 31).val[1]

(* A local variable: the expression is evaluated once and the body reads  *)
(* its value.                                                              *)
Bind(v, body(_)) == CHOOSE r \in {body(x) : x \in {v}} : TRUE

(* Date.frommjd(mjd): the range check, then the constructor on RMJD(mjd) *)
Date_frommjd(mjd) ==
    IF mjd \notin min_mjd..max_mjd THEN Raise("ValueError")
    ELSE Bind(RMJD(2 * mjd), LAMBDA r :
            IF r.err # "none" THEN r ELSE Date_new(r.val[1], r.val[2], r.val[3]))

(* Date.isoweekday *)
Date_isoweekday(date) ==
    ((weekday_nr(2 * Date_mjd(date) + 4800001) - 1) % 7) + 1

(* TimeDelta.__divmod__(other, Date.resolution): floor division *)
TimeDelta_divmod(td) == <<td \div 24, td % 24>>

(* Date.__add__(TimeDelta): a nonzero fraction only prints a warning *)
Date_add(date, td) ==
    Bind(TimeDelta_divmod(td)[1], LAMBDA days :
    Bind(Date_mjd(date) + days, LAMBDA mjd :
        IF mjd \in min_mjd..max_mjd THEN Date_frommjd(mjd)
        ELSE Raise("OverflowError")))

(* Date.__sub__(TimeDelta) *)
Date_sub(date, td) ==
    Bind(TimeDelta_divmod(td)[1], LAMBDA days :
    Bind(Date_mjd(date) - days, LAMBDA mjd :
        IF mjd \in min_mjd..max_mjd THEN Date_frommjd(mjd)
        ELSE Raise("OverflowError")))

(* Date._iso, the value of Date.isocalendar() *)
Date_isocalendar(date) ==
    IF ~dtmath_is_gregorian(date[1], date[2], date[3]) THEN Raise("ValueError")
    ELSE
    Bind(Date_isoweekday(date), LAMBDA iso_weekday :
    Bind(Date_add(date, 24 * (4 - iso_weekday)), LAMBDA thursday_date :
        IF thursday_date.err # "none" THEN thursday_date
        ELSE
        Bind(thursday_date.val[1], LAMBDA iso_year :
        Bind(Date_new(iso_year, 1, 1), LAMBDA jan_1 :
            IF jan_1.err # "none" THEN jan_1
            ELSE
            Bind(Date_isoweekday(jan_1.val), LAMBDA weekday_1 :
            Bind(((4 - weekday_1) % 7) + 1, LAMBDA first_thursday :
            Bind(Date_new(iso_year, 1, first_thursday), LAMBDA first_thursday_date :
                IF first_thursday_date.err # "none" THEN first_thursday_date
                ELSE
                Bind(((Date_mjd(thursday_date.val)
                        - Date_mjd(first_thursday_date.val)) \div 7) + 1,
                     LAMBDA iso_weeknum :
                        Ok(<<iso_year, iso_weeknum, iso_weekday>>)))))))))

(* dt2.iso_weeks_in_year *)
iso_weeks_in_year(year) ==
    LET _p(y) == y + (y \div 4) - (y \div 100) + (y \div 400)
    IN  IF _p(year) % 7 = 4 \/ _p(year - 1) % 7 = 3 THEN 53 ELSE 52

(* Date.fromisocalendar(year, week, day) *)
Date_fromisocalendar(year, week, day) ==
    IF year < 1582 \/ (year = 1582 /\ (week < 40 \/ (week = 40 /\ day < 5)))
    THEN Raise("ValueError")
    ELSE IF year > 9999 THEN Raise("ValueError")
    ELSE IF week < 1 \/ week > iso_weeks_in_year(year) \/ day < 1 \/ day > 7
    THEN Raise("ValueError")
    ELSE
    Bind(Date_new(year, 1, 1), LAMBDA jan_1 :
        IF jan_1.err # "none" THEN jan_1
        ELSE
        Bind(Date_isoweekday(jan_1.val), LAMBDA weekday_1 :
        Bind(((4 - weekday_1) % 7) + 1, LAMBDA first_thursday :
        Bind(Date_new(year, 1, first_thursday), LAMBDA first_thursday_date :
            IF first_thursday_date.err # "none" THEN first_thursday_date
            ELSE Date_add(first_thursday_date.val,
                          24 * (7 * (week - 1) + day - 4))))))

(* Strings are sequences of one-character strings. *)
Digits == <<"0", "1", "2", "3", "4", "5", "6", "7", "8", "9">>
IsDigit(c) == \E i \in 1..10 : Digits[i] = c
DigitVal(c) == (CHOOSE i \in 1..10 : Digits[i] = c) - 1

RECURSIVE Decimal(_)
(* the decimal digits of n >= 0 *)
Decimal(n) == IF n < 10 THEN <<Digits[n + 1]>>
              ELSE Decimal(n \div 10) \o <<Digits[(n % 10) + 1]>>

(* the format specification 0<width>d: sign, then zeros up to the width *)
format_0d(n, width) ==
    LET sign == IF n < 0 THEN <<"-">> ELSE <<>>
        digits == Decimal(IF n < 0 THEN -n ELSE n)
        fill == width - Len(sign) - Len(digits)
    IN  sign \o [i \in 1..(IF fill > 0 THEN fill ELSE 0) |-> "0"] \o digits

(* Date.isoformat: f"{year:04d}-{month:02d}-{day:02d}" *)
Date_isoformat(date) ==
    format_0d(date[1], 4) \o <<"-">> \o format_0d(date[2], 2) \o <<"-">>
        \o format_0d(date[3], 2)

(* Date.fromisoformat.  datepattern.match:                                 *)
(*   ([+-]?)([0-9]{4})(?P<dash>-?)(W?)([0-5][0-9])(?:(?P=dash)([0-9]{1,2}))? *)
(* Every group but the last has one way to match, so the match is found    *)
(* from left to right; the sign group is matched and then not used: the    *)
(* factor 1 - 2 * (year == '-') compares the four digits with '-'.         *)
Date_fromisoformat(s) ==
    LET At(i) == IF i \in 1..Len(s) THEN s[i] ELSE ""
        y0 == IF At(1) \in {"+", "-"} THEN 2 ELSE 1
        yearOk == \A i \in y0..(y0 + 3) : IsDigit(At(i))
        p1 == y0 + 4
        dash == At(p1) = "-"
        p2 == IF dash THEN p1 + 1 ELSE p1
        weekformat == At(p2) = "W"
        p3 == IF weekformat THEN p2 + 1 ELSE p2
        wmOk == At(p3) \in {"0", "1", "2", "3", "4", "5"} /\ IsDigit(At(p3 + 1))
        p4 == p3 + 2
        p5 == IF dash THEN p4 + 1 ELSE p4
        hasDay == (dash => At(p4) = "-") /\ IsDigit(At(p5))
        year == 1000 * DigitVal(At(y0)) + 100 * DigitVal(At(y0 + 1))
                + 10 * DigitVal(At(y0 + 2)) + DigitVal(At(y0 + 3))
        wm == 10 * DigitVal(At(p3)) + DigitVal(At(p3 + 1))
        day == IF ~hasDay THEN 1
               ELSE IF IsDigit(At(p5 + 1))
                    THEN 10 * DigitVal(At(p5)) + DigitVal(At(p5 + 1))
                    ELSE DigitVal(At(p5))
    IN  IF ~(yearOk /\ wmOk) THEN Raise("ValueError")
        ELSE IF year < MINYEAR \/ year > MAXYEAR THEN Raise("ValueError")
        ELSE IF weekformat
             THEN Bind(Date_new(year, 12, 28), LAMBDA dec28 :
                    IF dec28.err # "none" THEN dec28
                    ELSE
                    Bind(Date_isocalendar(dec28.val), LAMBDA last :
                        IF last.err # "none" THEN last
                        ELSE IF wm < 1 \/ wm > last.val[2] \/ day < 1 \/ day > 7
                        THEN Raise("ValueError")
                        ELSE Date_fromisocalendar(year, wm, day)))
        ELSE IF ~hasDay THEN Raise("ValueError")
        ELSE Date_new(year, wm, day)

-----------------------------------------------------------------------------
(* Python integers *)

(* Python integers are unbounded.  An int is carried as a sign and a       *)
(* magnitude: the digits in base LimbBase, least significant first, the    *)
(* most significant digit nonzero; zero has no digit and no sign.          *)
LimbBase == 10000

RECURSIVE MagTrim(_)
MagTrim(m) ==
    IF m = <<>> THEN m
    ELSE IF m[Len(m)] # 0 THEN m
    ELSE MagTrim(SubSeq(m, 1, Len(m) - 1))

RECURSIVE MagOfNat(_)
MagOfNat(n) ==
    IF n = 0 THEN <<>> ELSE <<n % LimbBase>> \o MagOfNat(n \div LimbBase)

MagDigit(m, i) == IF i <= Len(m) THEN m[i] ELSE 0

(* comparison of magnitudes: -1, 0 or 1 *)
RECURSIVE MagCmpFrom(_, _, _)
MagCmpFrom(a, b, i) ==
    IF i = 0 THEN 0
    ELSE IF a[i] < b[i] THEN -1
    ELSE IF a[i] > b[i] THEN 1
    ELSE MagCmpFrom(a, b, i - 1)

MagCmp(a, b) ==
    IF Len(a) < Len(b) THEN -1
    ELSE IF Len(a) > Len(b) THEN 1
    ELSE MagCmpFrom(a, b, Len(a))

RECURSIVE MagAddFrom(_, _, _, _)
MagAddFrom(a, b, i, carry) ==
    IF i > Len(a) /\ i > Len(b)
    THEN (IF carry = 0 THEN <<>> ELSE <<carry>>)
    ELSE Bind(MagDigit(a, i) + MagDigit(b, i) + carry, LAMBDA s :
            <<s % LimbBase>> \o MagAddFrom(a, b, i + 1, s \div LimbBase))

MagAdd(a, b) == MagAddFrom(a, b, 1, 0)

(* a - b for a >= b *)
RECURSIVE MagSubFrom(_, _, _, _)
MagSubFrom(a, b, i, borrow) ==
    IF i > Len(a) THEN <<>>
    ELSE Bind(a[i] - MagDigit(b, i) - borrow, LAMBDA s :
            <<s % LimbBase>>
                \o MagSubFrom(a, b, i + 1, IF s < 0 THEN 1 ELSE 0))

MagSub(a, b) == MagTrim(MagSubFrom(a, b, 1, 0))

(* a * d for one digit d *)
RECURSIVE MagMulDigitFrom(_, _, _, _)
MagMulDigitFrom(a, d, i, carry) ==
    IF i > Len(a) THEN (IF carry = 0 THEN <<>> ELSE <<carry>>)
    ELSE Bind(a[i] * d + carry, LAMBDA s :
            <<s % LimbBase>> \o MagMulDigitFrom(a, d, i + 1, s \div LimbBase))

RECURSIVE MagMul(_, _)
MagMul(a, b) ==
    IF a = <<>> \/ b = <<>> THEN <<>>
    ELSE MagAdd(MagTrim(MagMulDigitFrom(a, b[1], 1, 0)),
                MagTrim(<<0>> \o MagMul(a, Tail(b))))

(* quotient and remainder of magnitudes for a quotient of one digit, b     *)
(* nonzero: the quotient of a by 2b, doubled, and one more b if it fits    *)
RECURSIVE MagDivModDigit(_, _)
MagDivModDigit(a, b) ==
    IF MagCmp(a, b) < 0 THEN <<0, a>>
    ELSE Bind(MagDivModDigit(a, MagAdd(b, b)), LAMBDA qr :
            IF MagCmp(qr[2], b) < 0 THEN <<2 * qr[1], qr[2]>>
            ELSE <<2 * qr[1] + 1, MagSub(qr[2], b)>>)

(* quotient and remainder of magnitudes, b nonzero: long division, the     *)
(* digits of the quotient from the most significant one                    *)
RECURSIVE MagDivMod(_, _)
MagDivMod(a, b) ==
    IF MagCmp(a, b) < 0 THEN <<<<>>, a>>
    ELSE Bind(MagDivMod(a, <<0>> \o b), LAMBDA high :
         Bind(MagDivModDigit(high[2], b), LAMBDA low :
            <<MagTrim(<<low[1]>> \o high[1]), low[2]>>))

IntOf(n) == [neg |-> n < 0, mag |-> MagOfNat(IF n < 0 THEN -n ELSE n)]
IntMake(neg, mag) == [neg |-> neg /\ mag # <<>>, mag |-> mag]
IntNeg(a) == IntMake(~a.neg, a.mag)
IntAbs(a) == IntMake(FALSE, a.mag)

IntAdd(a, b) ==
    IF a.neg = b.neg THEN IntMake(a.neg, MagAdd(a.mag, b.mag))
    ELSE IF MagCmp(a.mag, b.mag) >= 0 THEN IntMake(a.neg, MagSub(a.mag, b.mag))
    ELSE IntMake(b.neg, MagSub(b.mag, a.mag))

IntSub(a, b) == IntAdd(a, IntNeg(b))
IntMul(a, b) == IntMake(a.neg # b.neg, MagMul(a.mag, b.mag))

(* a < b, a = b, a > b as -1, 0, 1 *)
IntCmp(a, b) ==
    IF a.neg # b.neg THEN (IF a.neg THEN -1 ELSE 1)
    ELSE IF a.neg THEN MagCmp(b.mag, a.mag) ELSE MagCmp(a.mag, b.mag)

(* mutant: the quotient rounded towards zero *)
IntDivMod_trunc(a, b) ==
    Bind(MagDivMod(a.mag, b.mag), LAMBDA qr :
        <<IntMake(a.neg # b.neg, qr[1]), IntMake(a.neg, qr[2])>>)

(* divmod(a, b) of Python ints, b nonzero: the quotient is rounded towards *)
(* minus infinity and the remainder has the sign of b                      *)
IntDivMod(a, b) ==
    Bind(MagDivMod(a.mag, b.mag), LAMBDA qr :
        IF qr[2] = <<>> \/ a.neg = b.neg
        THEN <<IntMake(a.neg # b.neg, qr[1]), IntMake(b.neg, qr[2])>>
        ELSE <<IntMake(TRUE, MagAdd(qr[1], <<1>>)),
               IntMake(b.neg, MagSub(b.mag, qr[2]))>>)

(* the value of an int that fits the integers of the model *)
RECURSIVE MagValue(_)
MagValue(m) == IF m = <<>> THEN 0 ELSE m[1] + LimbBase * MagValue(Tail(m))
IntValue(a) == IF a.neg THEN -MagValue(a.mag) ELSE MagValue(a.mag)

-----------------------------------------------------------------------------
(* cnav.dt2: TimeDelta *)

_USEC == IntOf(1000)
_MSEC == IntMul(IntOf(1000), _USEC)
_SEC == IntMul(IntOf(1000), _MSEC)
_MIN == IntMul(IntOf(60), _SEC)
_HR == IntMul(IntOf(60), _MIN)
_DAY == IntMul(IntOf(24), _HR)
_WEEK == IntMul(IntOf(7), _DAY)

DELTA_MAX_DAYS == 5373485

(* TimeDelta.__new__ from the rounded total on: the three divmods, the     *)
(* check of the days and the object, which holds days, seconds and         *)
(* microseconds of datetime.timedelta and _total_nanoseconds               *)
TimeDelta_normalize(total_nanoseconds) ==
    Bind(IntDivMod(total_nanoseconds, _DAY), LAMBDA d :
    Bind(IntDivMod(d[2], _SEC), LAMBDA s :
    Bind(IntDivMod(s[2], _USEC), LAMBDA u :
        IF MagCmp(d[1].mag, MagOfNat(999999999)) > 0
        THEN Raise("OverflowError")
        ELSE Ok([days |-> IntValue(d[1]),
                 seconds |-> IntValue(s[1]),
                 microseconds |-> IntValue(u[1]),
                 _total_nanoseconds |-> total_nanoseconds]))))

(* TimeDelta(days, seconds, microseconds, nanoseconds, milliseconds,       *)
(* minutes, hours, weeks), the arguments ints: the Decimal sum is exact    *)
(* and round() leaves it as it is                                          *)
TimeDelta_new(days, seconds, microseconds, nanoseconds, milliseconds, minutes, hours, weeks) ==
    TimeDelta_normalize(
        IntAdd(IntOf(nanoseconds),
        IntAdd(IntMul(IntOf(microseconds), _USEC),
        IntAdd(IntMul(IntOf(milliseconds), _MSEC),
        IntAdd(IntMul(IntOf(seconds), _SEC),
        IntAdd(IntMul(IntOf(minutes), _MIN),
        IntAdd(IntMul(IntOf(hours), _HR),
        IntAdd(IntMul(IntOf(days), _DAY),
               IntMul(IntOf(weeks), _WEEK)))))))))

(* TimeDelta(nanoseconds=ns) for a Python int ns *)
TimeDelta_of(ns) == TimeDelta_normalize(ns)

(* TimeDelta.min and TimeDelta.max *)
TimeDelta_min == TimeDelta_new(-999999999, 0, 0, 0, 0, 0, 0, 0).val
TimeDelta_max == TimeDelta_new(999999999, 59, 0, 999999999, 0, 59, 23, 0).val

TimeDelta_add(self, other) ==
    TimeDelta_of(IntAdd(self._total_nanoseconds, other._total_nanoseconds))

TimeDelta_sub(self, other) ==
    TimeDelta_of(IntSub(self._total_nanoseconds, other._total_nanoseconds))

TimeDelta_neg(self) == TimeDelta_of(IntNeg(self._total_nanoseconds))

(* TimeDelta * int, also int * TimeDelta through __rmul__ *)
TimeDelta_mul(self, other) ==
    TimeDelta_of(IntMul(self._total_nanoseconds, other))

(* TimeDelta // int *)
TimeDelta_floordiv_int(self, other) ==
    IF other.mag = <<>> THEN Raise("ZeroDivisionError")
    ELSE TimeDelta_of(IntDivMod(self._total_nanoseconds, other)[1])

(* TimeDelta // TimeDelta, an int *)
TimeDelta_floordiv(self, other) ==
    IF other._total_nanoseconds.mag = <<>> THEN Raise("ZeroDivisionError")
    ELSE Ok(IntDivMod(self._total_nanoseconds, other._total_nanoseconds)[1])

(* TimeDelta % TimeDelta *)
TimeDelta_mod(self, other) ==
    IF other._total_nanoseconds.mag = <<>> THEN Raise("ZeroDivisionError")
    ELSE TimeDelta_of(
            IntDivMod(self._total_nanoseconds, other._total_nanoseconds)[2])

(* divmod(TimeDelta, TimeDelta): an int and a TimeDelta *)
TimeDelta_divmod_delta(self, other) ==
    IF other._total_nanoseconds.mag = <<>> THEN Raise("ZeroDivisionError")
    ELSE Bind(IntDivMod(self._total_nanoseconds, other._total_nanoseconds),
              LAMBDA dm :
                Bind(TimeDelta_of(dm[2]), LAMBDA mod :
                    IF mod.err # "none" THEN mod ELSE Ok(<<dm[1], mod.val>>)))

(* TimeDelta.__eq__ and TimeDelta.__gt__ compare the totals *)
TimeDelta_eq(self, other) ==
    IntCmp(self._total_nanoseconds, other._total_nanoseconds) = 0
TimeDelta_gt(self, other) ==
    IntCmp(self._total_nanoseconds, other._total_nanoseconds) > 0

(* The other comparisons are those of datetime.timedelta, which the class  *)
(* inherits: total_ordering adds none, since every one of them is already  *)
(* defined.  They compare days, seconds and microseconds.                  *)
timedelta_cmp(self, other) ==
    IF self.days # other.days THEN (IF self.days < other.days THEN -1 ELSE 1)
    ELSE IF self.seconds # other.seconds
         THEN (IF self.seconds < other.seconds THEN -1 ELSE 1)
    ELSE IF self.microseconds # other.microseconds
         THEN (IF self.microseconds < other.microseconds THEN -1 ELSE 1)
    ELSE 0

(* a comparison operator of two TimeDeltas *)
TimeDelta_compare(name, self, other) ==
    CASE name = "__eq__" -> TimeDelta_eq(self, other)
      [] name = "__gt__" -> TimeDelta_gt(self, other)
      [] name = "__lt__" -> timedelta_cmp(self, other) < 0
      [] name = "__le__" -> timedelta_cmp(self, other) <= 0
      [] name = "__ge__" -> timedelta_cmp(self, other) >= 0
      [] name = "__ne__" -> timedelta_cmp(self, other) # 0

-----------------------------------------------------------------------------
(* Inputs *)

PivotYears == {-4712, 200, 1500, 1582, 1700, 1900, 2000, 9999}
Years == {p + k : p \in PivotYears, k \in (-YearWindow)..YearWindow}
Months == 0..13
Days == 0..32

(* day numbers covering the sampled years, a few days past either end *)
JdInputs == {_JD(y, 1, 1) + k : y \in Years, k \in (-JdWindow)..(365 + JdWindow)}

(* years given to the module-level functions: the sampled years and the   *)
(* years around the epoch of the modified day number                       *)
MeeusYears == Years \cup {1858 + k : k \in (-YearWindow)..YearWindow}

(* years given to the proleptic calendars: the sampled years and negative, *)
(* century and 400-year years before year 1                                *)
ProlepticYears ==
    Years \cup {p + k : p \in {-400, -100, 0}, k \in (-YearWindow)..YearWindow}

(* arguments of RJDg and RJDj, in half days: noon and the midnight after  *)
(* it of every day of those years                                          *)
ProlepticJdInputs ==
    {2 * (_JD(y, 1, 1) + n) + k :
        y \in ProlepticYears, n \in (-JdWindow)..(365 + JdWindow), k \in 0..1}

(* years of the week computations: the reform, the years of the ISO week  *)
(* examples and both ends of the Gregorian era                             *)
WeekYears ==
    {p + k : p \in {1500, 1582, 2003, 2009, 2015, 2025, 9999},
             k \in (-YearWindow)..YearWindow}

(* day numbers given to weekday and isoweekday *)
WeekJdInputs ==
    {_JD(y, 1, 1) + k : y \in WeekYears \cup {MINYEAR},
                        k \in (-JdWindow)..(365 + JdWindow)}

(* years of the dates built: those of the week computations, negative    *)
(* years and the years around year 0                                       *)
DateYears ==
    WeekYears \cup {p + k : p \in {MINYEAR + YearWindow, -100, 0},
                            k \in (-YearWindow)..YearWindow}

(* lengths in hours of the TimeDeltas added to and subtracted from a Date *)
TimeDeltaInputs == {-744, -36, -24, -1, 0, 12, 24, 36, 744}

(* ISO week numbers and ISO weekdays given to I2G *)
IsoWeeks == 0..54
IsoDays == 0..8

(* keyword arguments of TimeDelta, in the order of the signature: days,   *)
(* seconds, microseconds, nanoseconds, milliseconds, minutes, hours, weeks *)
DeltaDays ==
    {-1000000000, -999999999, -2, -1, 0, 1, DELTA_MAX_DAYS, DELTA_MAX_DAYS + 1,
     600000000, 999999999, 1000000000}
DeltaSeconds == {-1, 0, 86399}
DeltaMicroseconds == {-1, 0}
DeltaNanoseconds == {-7, 0, 1, 999999999}
DeltaUnits == {0, 1}
DeltaHours == {0, 25}

(* the TimeDeltas that the operators are applied to *)
DeltaSelves ==
    {<<d, s, 0, n, 0, 0, 0, 0>> :
        d \in {-999999999, -2, 0, 1, 600000000, 999999999},
        s \in DeltaSeconds, n \in DeltaNanoseconds}
    \cup {<<0, 0, 0, 0, 0, 0, 25, 0>>}

(* their second operands *)
DeltaOperands ==
    {<<d, 0, 0, n, 0, 0, 0, 0>> : d \in {-1, 0, 1}, n \in {-2, 0, 2, 1000}}
        \cup {<<1, 0, 0, 0, 0, 0, 1, 0>>}

(* the ints that a TimeDelta is multiplied with and divided by *)
DeltaFactors == {-2, -1, 0, 1, 2, 3}

DeltaComparisons == {"__eq__", "__gt__", "__lt__", "__le__", "__ge__", "__ne__"}

(* years given to the day-number functions side by side: the sampled     *)
(* years and the years of the reference values of test_JD                  *)
AlignYears == Years \cup {-1001, -1000, -123, -122, 837, 1600, 1987, 1988, 2025}

(* reform dates given to setMixed next to the week computations *)
WeekReformInputs == { <<1500, 3, 1>>, <<1582, 10, 15>> }

(* arguments of the module-level RJD, in half days: noon and the midnight *)
(* after it of every day of the sampled years and of the days around both *)
(* ends of range(1721057, 2634166)                                         *)
MeeusJdInputs ==
    {2 * j + k :
        j \in {_JD(y, 1, 1) + n : y \in MeeusYears, n \in (-JdWindow)..(365 + JdWindow)}
              \cup {e + n : e \in {1721057, 2634166}, n \in (-JdWindow)..JdWindow},
        k \in 0..1}

(* reform dates offered to setMixed: accepted ones and rejected ones *)
ReformInputs ==
    { <<200, 3, 1>>, <<1582, 10, 15>>, <<1700, 2, 20>>, <<1700, 3, 1>>,
      <<9999, 12, 31>>,
      <<200, 2, 28>>, <<200, 2, 29>>, <<199, 12, 31>>, <<-4712, 1, 1>>,
      <<1700, 2, 29>>, <<1582, 13, 1>>, <<1582, 0, 15>>, <<1582, 10, 32>>,
      <<1582, 10, 0>>, <<1582, 4, 31>>, <<10000, 1, 1>> }

-----------------------------------------------------------------------------
(* The engine's configuration methods *)

(* mutant: only the year of the reform date is compared with 200 *)
Calendar_setMixed_yearonly(gr_year, gr_month, gr_day) ==
    LET chk == _check_date_fields(gr_year, gr_month, gr_day, gregorian)
    IN  IF chk.err # "none" THEN chk
        ELSE IF ~(gr_year >= 200) THEN Raise("AssertionError")
        ELSE Ok(<<gr_year, gr_month, gr_day>>)

(* setMixed of cnav.calendar.Calendar *)
Calendar_setMixed(gr_year, gr_month, gr_day) ==
    LET chk == _check_date_fields(gr_year, gr_month, gr_day, gregorian)
    IN  IF chk.err # "none" THEN chk
        ELSE IF ~TupleGE(<<gr_year, gr_month, gr_day>>, <<200, 3, 1>>)
        THEN Raise("AssertionError")
        ELSE Ok(<<gr_year, gr_month, gr_day>>)

(* setMixed of cnav.dtmath.Calendar *)
dtmath_Calendar_setMixed(g_year, g_month, g_day) ==
    LET dmax == IF g_month = 2 /\ _is_julian_leapyear(g_year)
                               /\ _is_gregorian_leapyear(g_year)
                THEN mdays(g_month) + 1 ELSE mdays(g_month)
    IN  IF ~(g_year >= 200 /\ 1 <= g_month /\ g_month <= 12 /\ g_day >= 1)
        THEN Raise("AssertionError")
        ELSE IF ~TupleGE(<<g_year, g_month, g_day>>, <<200, 3, 1>>)
        THEN Raise("AssertionError")
        ELSE IF ~(g_day <= dmax) THEN Raise("AssertionError")
        ELSE Ok(<<g_year, g_month, g_day>>)

setMixedResult(y, m, d) ==
    IF impl = "calendar" THEN Calendar_setMixed(y, m, d)
    ELSE dtmath_Calendar_setMixed(y, m, d)

(* mutant: the two ends of the gap are stored the wrong way round *)
ApplyMixed_swapped(res, y, m, d, call) ==
    IF res.err = "none"
    THEN /\ gregorian_reform_date' = <<y, m, d>>
         /\ reform' = <<_JD(y, m, d), _GD(y, m, d)>>
         /\ lastset' = call
    ELSE UNCHANGED <<gregorian_reform_date, reform, lastset>>

(* mutant: the high end of the gap is kept from the configuration before *)
ApplyMixed_keepgap(res, y, m, d, call) ==
    IF res.err = "none"
    THEN /\ gregorian_reform_date' = <<y, m, d>>
         /\ reform' = <<_GD(y, m, d), reform[2]>>
         /\ lastset' = call
    ELSE UNCHANGED <<gregorian_reform_date, reform, lastset>>

(* the assignments of setMixed once its checks passed; a raised check     *)
(* leaves before the first assignment                                      *)
ApplyMixed(res, y, m, d, call) ==
    IF res.err = "none"
    THEN /\ gregorian_reform_date' = <<y, m, d>>
         /\ reform' = <<_GD(y, m, d), _JD(y, m, d)>>
         /\ lastset' = call
    ELSE UNCHANGED <<gregorian_reform_date, reform, lastset>>

setMixed(y, m, d) ==
    LET res == setMixedResult(y, m, d)
    IN  /\ op = "idle"
        /\ ApplyMixed(res, y, m, d, [call |-> "setMixed", date |-> <<y, m, d>>])
        /\ op' = "setMixed"
        /\ arg' = <<y, m, d>>
        /\ out' = res
        /\ chain' = NoCall
        /\ UNCHANGED impl

setDefault ==
    LET res == setMixedResult(1582, 10, 15)
    IN  /\ op = "idle"
        /\ ApplyMixed(res, 1582, 10, 15, [call |-> "setDefault", date |-> <<>>])
        /\ op' = "setDefault"
        /\ arg' = <<>>
        /\ out' = IF res.err = "none" THEN Ok(<<>>) ELSE res
        /\ chain' = NoCall
        /\ UNCHANGED impl

setJulian ==
    /\ op = "idle"
    /\ gregorian_reform_date' = <<MAXYEAR + 1, 1, 1>>
    /\ reform' = <<1, -1>>
    /\ lastset' = [call |-> "setJulian", date |-> <<>>]
    /\ op' = "setJulian"
    /\ arg' = <<>>
    /\ out' = Ok(<<>>)
    /\ chain' = NoCall
    /\ UNCHANGED impl

setGregorian ==
    /\ op = "idle"
    /\ gregorian_reform_date' = <<-4712, 1, 1>>
    /\ reform' = <<-1, -1>>
    /\ lastset' = [call |-> "setGregorian", date |-> <<>>]
    /\ op' = "setGregorian"
    /\ arg' = <<>>
    /\ out' = Ok(<<>>)
    /\ chain' = NoCall
    /\ UNCHANGED impl

-----------------------------------------------------------------------------
(* Calls of the engine's conversion methods *)

JDResult(y, m, d) ==
    IF impl = "calendar" THEN Calendar_JD(y, m, d) ELSE dtmath_Calendar_JD(y, m, d)

RJDResult(jd) ==
    IF impl = "calendar" THEN Calendar_RJD(jd) ELSE dtmath_Calendar_RJD(jd)

ThisCall == [op |-> op, arg |-> arg, out |-> out]

(* cal.JD(y, m, d) *)
CallJD ==
    /\ op = "idle"
    /\ \E y \in Years, m \in Months, d \in Days :
        /\ op' = "JD"
        /\ arg' = <<y, m, d>>
        /\ out' = JDResult(y, m, d)
        /\ chain' = NoCall
        /\ UNCHANGED <<impl, gregorian_reform_date, reform, lastset>>

(* cal.RJD(jd) *)
CallRJD ==
    /\ op = "idle"
    /\ \E jd \in JdInputs :
        /\ op' = "RJD"
        /\ arg' = <<jd>>
        /\ out' = RJDResult(jd)
        /\ chain' = NoCall
        /\ UNCHANGED <<impl, gregorian_reform_date, reform, lastset>>

(* cal.RJD(cal.JD(y, m, d)): RJD applied to the day number JD just returned *)
CallRJDofJD ==
    /\ op = "JD"
    /\ chain = NoCall
    /\ out.err = "none"
    /\ op' = "RJD"
    /\ arg' = out.val
    /\ out' = RJDResult(out.val[1])
    /\ chain' = ThisCall
    /\ UNCHANGED <<impl, gregorian_reform_date, reform, lastset>>

(* cal.JD applied to the date cal.RJD(jd) just returned *)
CallJDofRJD ==
    /\ op = "RJD"
    /\ chain = NoCall
    /\ out.err = "none"
    /\ op' = "JD"
    /\ arg' = out.val
    /\ out' = JDResult(out.val[1], out.val[2], out.val[3])
    /\ chain' = ThisCall
    /\ UNCHANGED <<impl, gregorian_reform_date, reform, lastset>>

(* cal.is_leapyear(year); the Python bool is carried as the int it is *)
CallIsLeapyear ==
    /\ op = "idle"
    /\ \E y \in Years :
        /\ op' = "is_leapyear"
        /\ arg' = <<y>>
        /\ out' = Ok(<<IF is_leapyear(y) THEN 1 ELSE 0>>)
        /\ chain' = NoCall
        /\ UNCHANGED <<impl, gregorian_reform_date, reform, lastset>>

(* the caller is done with the result and is ready for its next call *)
Return ==
    /\ op # "idle"
    /\ op' = "idle"
    /\ arg' = <<>>
    /\ out' = Ok(<<>>)
    /\ chain' = NoCall
    /\ UNCHANGED <<impl, gregorian_reform_date, reform, lastset>>

(* module-level JD(YYYY, MM, DD) *)
CallMeeusJD ==
    /\ op = "idle"
    /\ \E y \in MeeusYears, m \in Months, d \in Days :
        /\ op' = "MeeusJD"
        /\ arg' = <<y, m, d>>
        /\ out' = JD(y, m, d)
        /\ chain' = NoCall
        /\ UNCHANGED <<impl, gregorian_reform_date, reform, lastset>>

(* module-level MJD(YYYY, MM, DD) *)
CallMeeusMJD ==
    /\ op = "idle"
    /\ \E y \in MeeusYears, m \in Months, d \in Days :
        /\ op' = "MeeusMJD"
        /\ arg' = <<y, m, d>>
        /\ out' = MJD(y, m, d)
        /\ chain' = NoCall
        /\ UNCHANGED <<impl, gregorian_reform_date, reform, lastset>>

(* module-level JD(YYYY, MM, DD + 0.5) *)
CallMeeusJDnoon ==
    /\ op = "idle"
    /\ \E y \in MeeusYears, m \in Months, d \in Days :
        /\ op' = "MeeusJDnoon"
        /\ arg' = <<y, m, d>>
        /\ out' = JD_noon(y, m, d)
        /\ chain' = NoCall
        /\ UNCHANGED <<impl, gregorian_reform_date, reform, lastset>>

(* module-level RJD(jd), jd a whole or half day number *)
CallMeeusRJD ==
    /\ op = "idle"
    /\ \E jd2 \in MeeusJdInputs :
        /\ op' = "MeeusRJD"
        /\ arg' = <<jd2>>
        /\ out' = RJD(jd2)
        /\ chain' = NoCall
        /\ UNCHANGED <<impl, gregorian_reform_date, reform, lastset>>

(* RJD(JD(YYYY, MM, DD)): RJD applied to the day number JD just returned *)
CallMeeusRJDofJD ==
    /\ op = "MeeusJD"
    /\ chain = NoCall
    /\ out.err = "none"
    /\ op' = "MeeusRJD"
    /\ arg' = out.val
    /\ out' = RJD(out.val[1])
    /\ chain' = ThisCall
    /\ UNCHANGED <<impl, gregorian_reform_date, reform, lastset>>

(* YYYY, MM, DD, F = RJD(jd); JD(YYYY, MM, DD) *)
CallMeeusJDofRJD ==
    /\ op = "MeeusRJD"
    /\ chain = NoCall
    /\ out.err = "none"
    /\ op' = "MeeusJD"
    /\ arg' = SubSeq(out.val, 1, 3)
    /\ out' = JD(out.val[1], out.val[2], out.val[3])
    /\ chain' = ThisCall
    /\ UNCHANGED <<impl, gregorian_reform_date, reform, lastset>>

(* module-level RMJD(mjd), mjd a whole or half day number *)
CallRMJD ==
    /\ op = "idle"
    /\ \E jd2 \in MeeusJdInputs :
        /\ op' = "RMJD"
        /\ arg' = <<jd2 - 4800001>>
        /\ out' = RMJD(jd2 - 4800001)
        /\ chain' = NoCall
        /\ UNCHANGED <<impl, gregorian_reform_date, reform, lastset>>

(* JDg(y, m, d): proleptic Gregorian date to day number, no validation *)
CallJDg ==
    /\ op = "idle"
    /\ \E y \in ProlepticYears, m \in Months, d \in Days :
        /\ op' = "JDg"
        /\ arg' = <<y, m, d>>
        /\ out' = Ok(<<JDg(y, m, d)>>)
        /\ chain' = NoCall
        /\ UNCHANGED <<impl, gregorian_reform_date, reform, lastset>>

(* RJDg(jd): day number to proleptic Gregorian date *)
CallRJDg ==
    /\ op = "idle"
    /\ \E jd2 \in ProlepticJdInputs :
        /\ op' = "RJDg"
        /\ arg' = <<jd2>>
        /\ out' = Ok(RJDg(jd2))
        /\ chain' = NoCall
        /\ UNCHANGED <<impl, gregorian_reform_date, reform, lastset>>

(* RJDg(JDg(y, m, d)) *)
CallRJDgofJDg ==
    /\ op = "JDg"
    /\ chain = NoCall
    /\ op' = "RJDg"
    /\ arg' = out.val
    /\ out' = Ok(RJDg(out.val[1]))
    /\ chain' = ThisCall
    /\ UNCHANGED <<impl, gregorian_reform_date, reform, lastset>>

(* JDg applied to the date RJDg(jd) just returned *)
CallJDgofRJDg ==
    /\ op = "RJDg"
    /\ chain = NoCall
    /\ op' = "JDg"
    /\ arg' = out.val
    /\ out' = Ok(<<JDg(out.val[1], out.val[2], out.val[3])>>)
    /\ chain' = ThisCall
    /\ UNCHANGED <<impl, gregorian_reform_date, reform, lastset>>

(* JDj(y, m, d): proleptic Julian date to day number, no validation *)
CallJDj ==
    /\ op = "idle"
    /\ \E y \in ProlepticYears, m \in Months, d \in Days :
        /\ op' = "JDj"
        /\ arg' = <<y, m, d>>
        /\ out' = Ok(<<JDj(y, m, d)>>)
        /\ chain' = NoCall
        /\ UNCHANGED <<impl, gregorian_reform_date, reform, lastset>>

(* RJDj(jd): day number to proleptic Julian date *)
CallRJDj ==
    /\ op = "idle"
    /\ \E jd2 \in ProlepticJdInputs :
        /\ op' = "RJDj"
        /\ arg' = <<jd2>>
        /\ out' = Ok(RJDj(jd2))
        /\ chain' = NoCall
        /\ UNCHANGED <<impl, gregorian_reform_date, reform, lastset>>

(* RJDj(JDj(y, m, d)) *)
CallRJDjofJDj ==
    /\ op = "JDj"
    /\ chain = NoCall
    /\ op' = "RJDj"
    /\ arg' = out.val
    /\ out' = Ok(RJDj(out.val[1]))
    /\ chain' = ThisCall
    /\ UNCHANGED <<impl, gregorian_reform_date, reform, lastset>>

(* JDj applied to the date RJDj(jd) just returned *)
CallJDjofRJDj ==
    /\ op = "RJDj"
    /\ chain = NoCall
    /\ op' = "JDj"
    /\ arg' = out.val
    /\ out' = Ok(<<JDj(out.val[1], out.val[2], out.val[3])>>)
    /\ chain' = ThisCall
    /\ UNCHANGED <<impl, gregorian_reform_date, reform, lastset>>

(* cal.JD(y, m, d) for the years in YS *)
CallJDOn(YS) ==
    /\ op = "idle"
    /\ \E y \in YS, m \in Months, d \in Days :
        /\ op' = "JD"
        /\ arg' = <<y, m, d>>
        /\ out' = JDResult(y, m, d)
        /\ chain' = NoCall
        /\ UNCHANGED <<impl, gregorian_reform_date, reform, lastset>>

(* cal.weekday(jd) *)
CallWeekday ==
    /\ op = "idle"
    /\ \E jd \in WeekJdInputs :
        /\ op' = "weekday"
        /\ arg' = <<jd>>
        /\ out' = Ok(<<weekday(jd)>>)
        /\ chain' = NoCall
        /\ UNCHANGED <<impl, gregorian_reform_date, reform, lastset>>

(* cal.weekday(cal.JD(y, m, d)) *)
CallWeekdayOfJD ==
    /\ op = "JD"
    /\ chain = NoCall
    /\ out.err = "none"
    /\ op' = "weekday"
    /\ arg' = out.val
    /\ out' = Ok(<<weekday(out.val[1])>>)
    /\ chain' = ThisCall
    /\ UNCHANGED <<impl, gregorian_reform_date, reform, lastset>>

(* cal.weekday_str(cal.JD(y, m, d)) *)
CallWeekdayStrOfJD ==
    /\ op = "JD"
    /\ chain = NoCall
    /\ out.err = "none"
    /\ op' = "weekday_str"
    /\ arg' = out.val
    /\ out' = Ok(<<weekday_str(out.val[1])>>)
    /\ chain' = ThisCall
    /\ UNCHANGED <<impl, gregorian_reform_date, reform, lastset>>

(* cal.isoweekday(jd) *)
CallIsoweekday ==
    /\ op = "idle"
    /\ \E jd \in WeekJdInputs :
        /\ op' = "isoweekday"
        /\ arg' = <<jd>>
        /\ out' = Ok(<<isoweekday(jd)>>)
        /\ chain' = NoCall
        /\ UNCHANGED <<impl, gregorian_reform_date, reform, lastset>>

(* cal.G2I(y, m, d) *)
CallG2I ==
    /\ op = "idle"
    /\ \E y \in WeekYears, m \in Months, d \in Days :
        /\ op' = "G2I"
        /\ arg' = <<y, m, d>>
        /\ out' = G2I(y, m, d)
        /\ chain' = NoCall
        /\ UNCHANGED <<impl, gregorian_reform_date, reform, lastset>>

(* cal.I2G(year, week, day) *)
CallI2G ==
    /\ op = "idle"
    /\ \E y \in WeekYears, w \in IsoWeeks, d \in IsoDays :
        /\ op' = "I2G"
        /\ arg' = <<y, w, d>>
        /\ out' = I2G(y, w, d)
        /\ chain' = NoCall
        /\ UNCHANGED <<impl, gregorian_reform_date, reform, lastset>>

(* cal.I2G applied to the ISO date cal.G2I(y, m, d) just returned *)
CallI2GofG2I ==
    /\ op = "G2I"
    /\ chain = NoCall
    /\ out.err = "none"
    /\ op' = "I2G"
    /\ arg' = out.val
    /\ out' = I2G(out.val[1], out.val[2], out.val[3])
    /\ chain' = ThisCall
    /\ UNCHANGED <<impl, gregorian_reform_date, reform, lastset>>

(* cal._iso_weeks_in_year(year) *)
Call_iso_weeks_in_year ==
    /\ op = "idle"
    /\ \E y \in WeekYears :
        /\ op' = "_iso_weeks_in_year"
        /\ arg' = <<y>>
        /\ out' = Ok(<<_iso_weeks_in_year(y)>>)
        /\ chain' = NoCall
        /\ UNCHANGED <<impl, gregorian_reform_date, reform, lastset>>

(* Date(y, m, d) *)
CallDate ==
    /\ op = "idle"
    /\ \E y \in DateYears, m \in Months, d \in Days :
        /\ op' = "Date"
        /\ arg' = <<y, m, d>>
        /\ out' = Date_new(y, m, d)
        /\ chain' = NoCall
        /\ UNCHANGED <<impl, gregorian_reform_date, reform, lastset>>

(* Date(y, m, d) + TimeDelta(hours=td) *)
CallDateAdd ==
    /\ op = "Date"
    /\ chain = NoCall
    /\ out.err = "none"
    /\ \E td \in TimeDeltaInputs :
        /\ op' = "__add__"
        /\ arg' = <<td>>
        /\ out' = Date_add(out.val, td)
        /\ chain' = ThisCall
        /\ UNCHANGED <<impl, gregorian_reform_date, reform, lastset>>

(* Date(y, m, d) - TimeDelta(hours=td) *)
CallDateSub ==
    /\ op = "Date"
    /\ chain = NoCall
    /\ out.err = "none"
    /\ \E td \in TimeDeltaInputs :
        /\ op' = "__sub__"
        /\ arg' = <<td>>
        /\ out' = Date_sub(out.val, td)
        /\ chain' = ThisCall
        /\ UNCHANGED <<impl, gregorian_reform_date, reform, lastset>>

(* Date(y, m, d).isocalendar() *)
CallIsocalendar ==
    /\ op = "Date"
    /\ chain = NoCall
    /\ out.err = "none"
    /\ op' = "isocalendar"
    /\ arg' = out.val
    /\ out' = Date_isocalendar(out.val)
    /\ chain' = ThisCall
    /\ UNCHANGED <<impl, gregorian_reform_date, reform, lastset>>

(* Date.fromisocalendar(year, week, day) *)
CallFromisocalendar ==
    /\ op = "idle"
    /\ \E y \in WeekYears, w \in IsoWeeks, d \in IsoDays :
        /\ op' = "fromisocalendar"
        /\ arg' = <<y, w, d>>
        /\ out' = Date_fromisocalendar(y, w, d)
        /\ chain' = NoCall
        /\ UNCHANGED <<impl, gregorian_reform_date, reform, lastset>>

(* Date.fromisocalendar applied to the triple d.isocalendar() just returned *)
CallFromisocalendarOfIso ==
    /\ op = "isocalendar"
    /\ out.err = "none"
    /\ op' = "fromisocalendar"
    /\ arg' = out.val
    /\ out' = Date_fromisocalendar(out.val[1], out.val[2], out.val[3])
    /\ chain' = ThisCall
    /\ UNCHANGED <<impl, gregorian_reform_date, reform, lastset>>

(* Date(y, m, d).isoformat() *)
CallIsoformat ==
    /\ op = "Date"
    /\ chain = NoCall
    /\ out.err = "none"
    /\ op' = "isoformat"
    /\ arg' = out.val
    /\ out' = Ok(Date_isoformat(out.val))
    /\ chain' = ThisCall
    /\ UNCHANGED <<impl, gregorian_reform_date, reform, lastset>>

(* Date.fromisoformat(d.isoformat()) *)
CallFromisoformat ==
    /\ op = "isoformat"
    /\ op' = "fromisoformat"
    /\ arg' = out.val
    /\ out' = Date_fromisoformat(out.val)
    /\ chain' = ThisCall
    /\ UNCHANGED <<impl, gregorian_reform_date, reform, lastset>>

(* the ISO week-date string of a triple: YYYY-Www-D, or YYYYWwwD (basic) *)
IsoWeekString(iso, basic) ==
    LET sep == IF basic THEN <<>> ELSE <<"-">>
    IN  format_0d(iso[1], 4) \o sep \o <<"W">> \o format_0d(iso[2], 2) \o sep
            \o Decimal(iso[3])

(* Date.fromisoformat of the week-date string of d.isocalendar() *)
CallFromisoformatOfWeek ==
    /\ op = "isocalendar"
    /\ out.err = "none"
    /\ \E basic \in BOOLEAN :
        /\ op' = "fromisoformat"
        /\ arg' = IsoWeekString(out.val, basic)
        /\ out' = Date_fromisoformat(IsoWeekString(out.val, basic))
        /\ chain' = ThisCall
        /\ UNCHANGED <<impl, gregorian_reform_date, reform, lastset>>

-----------------------------------------------------------------------------
(* Calls of the two is_gregorian *)

(* module-level is_gregorian(YYYY, MM, DD) *)
Call_is_gregorian ==
    /\ op = "idle"
    /\ \E y \in MeeusYears, m \in Months, d \in Days :
        /\ op' = "is_gregorian"
        /\ arg' = <<y, m, d>>
        /\ out' = Ok(calendar_is_gregorian(y, m, d))
        /\ chain' = NoCall
        /\ UNCHANGED <<impl, gregorian_reform_date, reform, lastset>>

(* cal.is_gregorian(year, month, day) *)
CallIsGregorian ==
    /\ op = "idle"
    /\ \E y \in MeeusYears, m \in Months, d \in Days :
        /\ op' = "Calendar.is_gregorian"
        /\ arg' = <<y, m, d>>
        /\ out' = Ok(is_gregorian(y, m, d))
        /\ chain' = NoCall
        /\ UNCHANGED <<impl, gregorian_reform_date, reform, lastset>>

-----------------------------------------------------------------------------
(* Calls of the day-number functions side by side *)

(* module-level JD(YYYY, MM, DD) for the years in YS *)
CallMeeusJDOn(YS) ==
    /\ op = "idle"
    /\ \E y \in YS, m \in Months, d \in Days :
        /\ op' = "MeeusJD"
        /\ arg' = <<y, m, d>>
        /\ out' = JD(y, m, d)
        /\ chain' = NoCall
        /\ UNCHANGED <<impl, gregorian_reform_date, reform, lastset>>

(* JDg(y, m, d) for the years in YS *)
CallJDgOn(YS) ==
    /\ op = "idle"
    /\ \E y \in YS, m \in Months, d \in Days :
        /\ op' = "JDg"
        /\ arg' = <<y, m, d>>
        /\ out' = Ok(<<JDg(y, m, d)>>)
        /\ chain' = NoCall
        /\ UNCHANGED <<impl, gregorian_reform_date, reform, lastset>>

(* JDj(y, m, d) for the years in YS *)
CallJDjOn(YS) ==
    /\ op = "idle"
    /\ \E y \in YS, m \in Months, d \in Days :
        /\ op' = "JDj"
        /\ arg' = <<y, m, d>>
        /\ out' = Ok(<<JDj(y, m, d)>>)
        /\ chain' = NoCall
        /\ UNCHANGED <<impl, gregorian_reform_date, reform, lastset>>

-----------------------------------------------------------------------------
(* One Calendar shared by two threads, as the module-level cal is: a       *)
(* thread that reconfigures it and a thread that reads it.  Each step is   *)
(* one access to an attribute of the shared object, with the computation   *)
(* on local values that follows it.  chain holds the set call that has     *)
(* made its first assignment and not yet its second; op, arg and out hold  *)
(* the call of the reading thread, out.err = "running" while it is under   *)
(* way.                                                                    *)

(* reform dates that setMixed accepts *)
SharedReformInputs == {<<200, 3, 1>>, <<1582, 10, 15>>, <<1700, 3, 1>>}

(* dates and day numbers given to the reading thread *)
SharedDates ==
    {<<y, m, d>> : y \in {1582, 1699, 1700, 2000}, m \in {2, 3, 10}, d \in {1, 10, 20, 29}}
SharedJdInputs ==
    {_JD(1582, 10, 4) + k : k \in 0..12} \cup {_JD(1700, 2, 18) + k : k \in 0..13}

Running(k) == [err |-> "running", val |-> k]

(* self._gregorian_reform_date = ..., the first assignment of a set call *)
AssignReformDate ==
    /\ chain = NoCall
    /\ \/ /\ gregorian_reform_date' = <<1582, 10, 15>>
          /\ chain' = [op |-> "setDefault", arg |-> <<>>, out |-> Ok(<<>>)]
       \/ /\ gregorian_reform_date' = <<MAXYEAR + 1, 1, 1>>
          /\ chain' = [op |-> "setJulian", arg |-> <<>>, out |-> Ok(<<>>)]
       \/ /\ gregorian_reform_date' = <<-4712, 1, 1>>
          /\ chain' = [op |-> "setGregorian", arg |-> <<>>, out |-> Ok(<<>>)]
       \/ \E r \in SharedReformInputs :
          /\ Calendar_setMixed(r[1], r[2], r[3]).err = "none"
          /\ gregorian_reform_date' = r
          /\ chain' = [op |-> "setMixed", arg |-> r, out |-> Ok(<<>>)]
    /\ UNCHANGED <<impl, reform, lastset, op, arg, out>>

(* self.reform = ..., the second assignment of the set call under way *)
AssignReform ==
    /\ chain # NoCall
    /\ reform' = CASE chain.op = "setJulian" -> <<1, -1>>
                   [] chain.op = "setGregorian" -> <<-1, -1>>
                   [] chain.op = "setDefault" ->
                        <<_GD(1582, 10, 15), _JD(1582, 10, 15)>>
                   [] chain.op = "setMixed" ->
                        <<_GD(chain.arg[1], chain.arg[2], chain.arg[3]),
                          _JD(chain.arg[1], chain.arg[2], chain.arg[3])>>
    /\ lastset' = [call |-> chain.op, date |-> chain.arg]
    /\ chain' = NoCall
    /\ UNCHANGED <<impl, gregorian_reform_date, op, arg, out>>

(* cal.JD(y, m, d) up to the end of _check_date_fields, which reads the   *)
(* reform date through is_leapyear                                         *)
ReadJDCheck ==
    /\ op = "idle"
    /\ \E date \in SharedDates :
        /\ op' = "JD"
        /\ arg' = date
        /\ out' = IF _check_date_fields(date[1], date[2], date[3], mixed).err = "none"
                  THEN Running(<<1>>)
                  ELSE _check_date_fields(date[1], date[2], date[3], mixed)
    /\ UNCHANGED <<impl, gregorian_reform_date, reform, lastset, chain>>

(* if self.is_gregorian(year, month, day): return self._GD(...) *)
ReadJDIsGregorian ==
    /\ op = "JD"
    /\ out = Running(<<1>>)
    /\ out' = IF is_gregorian(arg[1], arg[2], arg[3])
              THEN Ok(<<_GD(arg[1], arg[2], arg[3])>>)
              ELSE Running(<<2>>)
    /\ UNCHANGED <<impl, gregorian_reform_date, reform, lastset, op, arg, chain>>

(* jdl, jdh = self.reform and the test of the gap *)
ReadJDReform ==
    /\ op = "JD"
    /\ out = Running(<<2>>)
    /\ out' = IF _JD(arg[1], arg[2], arg[3]) >= reform[1]
                    /\ _JD(arg[1], arg[2], arg[3]) < reform[2]
              THEN Raise("ValueError")
              ELSE Ok(<<_JD(arg[1], arg[2], arg[3])>>)
    /\ UNCHANGED <<impl, gregorian_reform_date, reform, lastset, op, arg, chain>>

(* cal.RJD(jd) up to the date of the branch that self.reform[0] chooses *)
ReadRJDReform ==
    /\ op = "idle"
    /\ \E jd \in SharedJdInputs :
        /\ op' = "RJD"
        /\ arg' = <<jd>>
        /\ out' = Running(IF jd >= reform[1] THEN _RGD(jd) ELSE _RJD(jd))
    /\ UNCHANGED <<impl, gregorian_reform_date, reform, lastset, chain>>

(* the _check_date_fields that ends RJD *)
ReadRJDCheck ==
    /\ op = "RJD"
    /\ out.err = "running"
    /\ out' = _check_date_fields(out.val[1], out.val[2], out.val[3], mixed)
    /\ UNCHANGED <<impl, gregorian_reform_date, reform, lastset, op, arg, chain>>

(* the reading thread has its result and goes on to its next call *)
ReadReturn ==
    /\ op # "idle"
    /\ out.err # "running"
    /\ op' = "idle"
    /\ arg' = <<>>
    /\ out' = Ok(<<>>)
    /\ UNCHANGED <<impl, gregorian_reform_date, reform, lastset, chain>>

-----------------------------------------------------------------------------
(* bisect(l, jd) of calendar.py (dtmath.py holds the same code), one step  *)
(* for each test of the while loop.  A Python list l is carried as a       *)
(* sequence, l[i] of the code being l[i + 1] here; None is Ok(<<>>), a     *)
(* returned element v is Ok(<<v>>).                                        *)

MaxLen == 3
ListElements == -1..2

(* the list of test_bisect *)
TestList == <<-7, -1, 2, 4, 9, 16, 25, 32, 64, 128, 255>>

(* the non-empty ascending lists of up to MaxLen elements *)
AscendingLists ==
    UNION { {l \in [1..n -> ListElements] : \A i \in 1..(n - 1) : l[i] <= l[i + 1]}
            : n \in 1..MaxLen }

BisectInputs ==
    {<<l, x>> : l \in AscendingLists, x \in -2..3}
        \cup {<<TestList, x>> : x \in -10..(TestList[Len(TestList)] + 1)}

(* mutant: an element equal to jd is put to the right *)
BisectStep_strict(l, jd, left, right) ==
    LET mid == (right + left) \div 2
    IN  IF l[mid + 1] < jd THEN <<mid, right>> ELSE <<left, mid>>

(* the body of the while loop: the new left and right *)
BisectStep(l, jd, left, right) ==
    LET mid == (right + left) \div 2
    IN  IF l[mid + 1] <= jd THEN <<mid, right>> ELSE <<left, mid>>

(* bisect(l, jd) up to the first test of the loop *)
CallBisect ==
    /\ op = "idle"
    /\ \E in \in BisectInputs :
        /\ op' = "bisect"
        /\ arg' = in
        /\ out' = IF in[1][1] > in[2] THEN Ok(<<>>) ELSE Running(<<0, Len(in[1])>>)
    /\ chain' = NoCall
    /\ UNCHANGED <<impl, gregorian_reform_date, reform, lastset>>

(* while right - left > 1: ...; return l[left] *)
BisectLoop ==
    /\ op = "bisect"
    /\ out.err = "running"
    /\ out' = IF out.val[2] - out.val[1] > 1
              THEN Running(BisectStep(arg[1], arg[2], out.val[1], out.val[2]))
              ELSE Ok(<<arg[1][out.val[1] + 1]>>)
    /\ UNCHANGED <<impl, gregorian_reform_date, reform, lastset, op, arg, chain>>

(* the caller has the result *)
BisectReturn ==
    /\ op = "bisect"
    /\ out.err # "running"
    /\ op' = "idle"
    /\ arg' = <<>>
    /\ out' = Ok(<<>>)
    /\ UNCHANGED <<impl, gregorian_reform_date, reform, lastset, chain>>

-----------------------------------------------------------------------------
(* Calls of TimeDelta *)

(* TimeDelta called with a tuple kw of keyword arguments *)
TimeDelta_kw(kw) ==
    TimeDelta_new(kw[1], kw[2], kw[3], kw[4], kw[5], kw[6], kw[7], kw[8])

CallTimeDelta ==
    /\ op = "idle"
    /\ \E d \in DeltaDays, s \in DeltaSeconds, u \in DeltaMicroseconds,
          n \in DeltaNanoseconds, ms \in DeltaUnits, mi \in DeltaUnits,
          h \in DeltaHours, w \in DeltaUnits :
        /\ op' = "TimeDelta"
        /\ arg' = <<d, s, u, n, ms, mi, h, w>>
        /\ out' = TimeDelta_kw(<<d, s, u, n, ms, mi, h, w>>)
        /\ chain' = NoCall
        /\ UNCHANGED <<impl, gregorian_reform_date, reform, lastset>>

(* a call name(self, other) that returns result *)
DeltaCall(name, operands, result) ==
    /\ op' = name
    /\ arg' = operands
    /\ out' = result
    /\ chain' = NoCall
    /\ UNCHANGED <<impl, gregorian_reform_date, reform, lastset>>

(* the TimeDeltas built from a set of keyword arguments *)
DeltasOf(kws) ==
    {TimeDelta_kw(kw).val : kw \in {k \in kws : TimeDelta_kw(k).err = "none"}}

DeltaSelfValues == DeltasOf(DeltaSelves)
DeltaOperandValues == DeltasOf(DeltaOperands)

(* a op b on two TimeDeltas that exist *)
CallDeltaBinary ==
    /\ op = "idle"
    /\ \E a \in DeltaSelfValues, b \in DeltaOperandValues :
        \/ DeltaCall("__add__", <<a, b>>, TimeDelta_add(a, b))
        \/ DeltaCall("__sub__", <<a, b>>, TimeDelta_sub(a, b))
        \/ DeltaCall("__floordiv__", <<a, b>>, TimeDelta_floordiv(a, b))
        \/ DeltaCall("__mod__", <<a, b>>, TimeDelta_mod(a, b))
        \/ DeltaCall("__divmod__", <<a, b>>, TimeDelta_divmod_delta(a, b))
        \/ \E name \in DeltaComparisons :
            DeltaCall(name, <<a, b>>, Ok(TimeDelta_compare(name, a, b)))

(* -a, a * k and a // k *)
CallDeltaScale ==
    /\ op = "idle"
    /\ \E a \in DeltaSelfValues :
        \/ DeltaCall("__neg__", <<a>>, TimeDelta_neg(a))
        \/ \E k \in {IntOf(f) : f \in DeltaFactors} :
            \/ DeltaCall("__mul__", <<a, k>>, TimeDelta_mul(a, k))
            \/ DeltaCall("floordiv_int", <<a, k>>, TimeDelta_floordiv_int(a, k))

(* (a + b) - b *)
CallDeltaSubOfAdd ==
    /\ op = "__add__"
    /\ chain = NoCall
    /\ out.err = "none"
    /\ op' = "__sub__"
    /\ arg' = <<out.val, arg[2]>>
    /\ out' = TimeDelta_sub(out.val, arg[2])
    /\ chain' = ThisCall
    /\ UNCHANGED <<impl, gregorian_reform_date, reform, lastset>>

(* -(-a) *)
CallDeltaNegOfNeg ==
    /\ op = "__neg__"
    /\ chain = NoCall
    /\ out.err = "none"
    /\ op' = "__neg__"
    /\ arg' = <<out.val>>
    /\ out' = TimeDelta_neg(out.val)
    /\ chain' = ThisCall
    /\ UNCHANGED <<impl, gregorian_reform_date, reform, lastset>>

(* q * b for q, r = divmod(a, b) *)
CallDeltaMulOfDivmod ==
    /\ op = "__divmod__"
    /\ out.err = "none"
    /\ op' = "__mul__"
    /\ arg' = <<arg[2], out.val[1]>>
    /\ out' = TimeDelta_mul(arg[2], out.val[1])
    /\ chain' = ThisCall
    /\ UNCHANGED <<impl, gregorian_reform_date, reform, lastset>>

(* q * b + r, the divmod staying the call that is continued *)
CallDeltaAddOfMul ==
    /\ op = "__mul__"
    /\ chain.op = "__divmod__"
    /\ out.err = "none"
    /\ op' = "__add__"
    /\ arg' = <<out.val, chain.out.val[2]>>
    /\ out' = TimeDelta_add(out.val, chain.out.val[2])
    /\ chain' = chain
    /\ UNCHANGED <<impl, gregorian_reform_date, reform, lastset>>

-----------------------------------------------------------------------------
(* Specifications *)

(* Calendar.__init__ calls setDefault() *)
InitEngine ==
    /\ gregorian_reform_date = <<1582, 10, 15>>
    /\ reform = <<_GD(1582, 10, 15), _JD(1582, 10, 15)>>
    /\ lastset = [call |-> "setDefault", date |-> <<>>]
    /\ op = "idle"
    /\ arg = <<>>
    /\ out = Ok(<<>>)
    /\ chain = NoCall

(* a Calendar() of cnav.calendar *)
Init ==
    /\ impl = "calendar"
    /\ InitEngine

Next ==
    \/ setDefault
    \/ setJulian
    \/ setGregorian
    \/ op = "idle" /\ \E r \in ReformInputs : setMixed(r[1], r[2], r[3])
    \/ CallJD
    \/ CallRJD
    \/ CallRJDofJD
    \/ CallJDofRJD
    \/ CallIsLeapyear
    \/ Return

(* the reconfigurable engine of cnav.calendar and its methods *)
Spec == Init /\ [][Next]_vars

NextDefault ==
    \/ CallJD
    \/ CallMeeusJD
    \/ CallMeeusMJD
    \/ CallMeeusJDnoon
    \/ CallMeeusRJD
    \/ CallMeeusRJDofJD
    \/ CallMeeusJDofRJD
    \/ CallRMJD
    \/ Return

(* a Calendar() that is never reconfigured, and the module-level Meeus    *)
(* functions beside it                                                     *)
SpecDefault == Init /\ [][NextDefault]_vars

(* a Calendar() of cnav.calendar or of cnav.dtmath *)
InitConfig ==
    /\ impl \in {"calendar", "dtmath"}
    /\ InitEngine

NextConfig ==
    \/ setDefault
    \/ setJulian
    \/ setGregorian
    \/ op = "idle" /\ \E r \in ReformInputs : setMixed(r[1], r[2], r[3])
    \/ Return

(* the configuration methods of both Calendar classes *)
SpecConfig == InitConfig /\ [][NextConfig]_vars

NextProleptic ==
    \/ CallJDg
    \/ CallRJDg
    \/ CallRJDgofJDg
    \/ CallJDgofRJDg
    \/ CallJDj
    \/ CallRJDj
    \/ CallRJDjofJDj
    \/ CallJDjofRJDj
    \/ Return

(* the module-level proleptic calendars, each on its own *)
SpecProleptic == Init /\ [][NextProleptic]_vars

NextWeek ==
    \/ setDefault
    \/ setJulian
    \/ setGregorian
    \/ op = "idle" /\ \E r \in WeekReformInputs : setMixed(r[1], r[2], r[3])
    \/ CallJDOn(WeekYears)
    \/ CallWeekday
    \/ CallWeekdayOfJD
    \/ CallWeekdayStrOfJD
    \/ CallIsoweekday
    \/ CallG2I
    \/ CallI2G
    \/ CallI2GofG2I
    \/ Call_iso_weeks_in_year
    \/ Return

(* the engine of cnav.calendar, its weekdays and its ISO week dates *)
SpecWeek == Init /\ [][NextWeek]_vars

NextDate ==
    \/ CallDate
    \/ CallDateAdd
    \/ CallDateSub
    \/ CallIsocalendar
    \/ CallFromisocalendar
    \/ CallFromisocalendarOfIso
    \/ CallIsoformat
    \/ CallFromisoformat
    \/ CallFromisoformatOfWeek
    \/ CallG2I
    \/ CallI2GofG2I
    \/ Return

(* Date and TimeDelta of cnav.dt2, beside a Calendar() that is never       *)
(* reconfigured                                                            *)
SpecDate == Init /\ [][NextDate]_vars

NextBranch ==
    \/ CallMeeusJD
    \/ CallMeeusMJD
    \/ Call_is_gregorian
    \/ CallIsGregorian
    \/ Return

(* the functions that choose between the Julian and the Gregorian branch, *)
(* beside a Calendar() that is never reconfigured                          *)
SpecBranch == Init /\ [][NextBranch]_vars

NextAlign ==
    \/ CallJDOn(AlignYears)
    \/ CallMeeusJDOn(AlignYears)
    \/ CallJDgOn(AlignYears)
    \/ CallJDjOn(AlignYears)
    \/ Return

(* the three implementations of the day number, given the same dates *)
SpecAlign == Init /\ [][NextAlign]_vars

(* a Calendar() of cnav.dtmath, the class that dt2 imports *)
InitDtmath ==
    /\ impl = "dtmath"
    /\ InitEngine

NextDtmath ==
    \/ setDefault
    \/ setJulian
    \/ setGregorian
    \/ CallJD
    \/ Return

(* the engine of cnav.dtmath and its JD *)
SpecDtmath == InitDtmath /\ [][NextDtmath]_vars

NextFrame ==
    \/ setDefault
    \/ setJulian
    \/ setGregorian
    \/ op = "idle" /\ \E r \in ReformInputs : setMixed(r[1], r[2], r[3])
    \/ CallJD
    \/ CallRJD
    \/ CallIsLeapyear
    \/ CallG2I
    \/ CallI2G
    \/ Return

(* the engine of cnav.calendar: its configuration methods and its queries *)
SpecFrame == Init /\ [][NextFrame]_vars

NextShared ==
    \/ AssignReformDate
    \/ AssignReform
    \/ ReadJDCheck
    \/ ReadJDIsGregorian
    \/ ReadJDReform
    \/ ReadRJDReform
    \/ ReadRJDCheck
    \/ ReadReturn

(* one Calendar of cnav.calendar, reconfigured by one thread while        *)
(* another thread calls JD and RJD on it                                   *)
SpecShared == Init /\ [][NextShared]_vars

NextBisect ==
    \/ CallBisect
    \/ BisectLoop
    \/ BisectReturn

(* bisect; a call that has begun goes on executing *)
SpecBisect == Init /\ [][NextBisect]_vars /\ WF_vars(BisectLoop)

NextDelta ==
    \/ CallTimeDelta
    \/ CallDeltaBinary
    \/ CallDeltaScale
    \/ CallDeltaSubOfAdd
    \/ CallDeltaNegOfNeg
    \/ CallDeltaMulOfDivmod
    \/ CallDeltaAddOfMul
    \/ Return

(* TimeDelta of cnav.dt2 *)
SpecDelta == Init /\ [][NextDelta]_vars

-----------------------------------------------------------------------------
(* Vocabulary of the properties *)

(* the engine is cnav.calendar.Calendar, configured by setDefault() *)
DefaultCalendar == impl = "calendar" /\ lastset.call = "setDefault"

(* the last call was cal.JD on a date of the caller's choosing *)
AfterJD == op = "JD" /\ chain = NoCall

(* the last call was cal.RJD on a day number of the caller's choosing *)
AfterRJD == op = "RJD" /\ chain = NoCall

(* the last two calls were cal.RJD(cal.JD(date)) *)
AfterRJDofJD == op = "RJD" /\ chain.op = "JD"

(* the last two calls were cal.JD applied to cal.RJD(jd) *)
AfterJDofRJD == op = "JD" /\ chain.op = "RJD"

(* civil calendar rules, stated independently of the code *)
GregorianLeap(y) == y % 4 = 0 /\ (y % 100 # 0 \/ y % 400 = 0)
JulianLeap(y) == y % 4 = 0
MonthLength(m, leap) ==
    IF m = 2 THEN (IF leap THEN 29 ELSE 28)
    ELSE IF m \in {4, 6, 9, 11} THEN 30 ELSE 31

(* a date of the civil calendar with the reform of 1582: Julian up to     *)
(* 1582-10-04, Gregorian from 1582-10-15, nothing in between              *)
ValidCivilDate(y, m, d) ==
    /\ y \in MINYEAR..MAXYEAR
    /\ m \in 1..12
    /\ d >= 1
    /\ d <= MonthLength(m, IF TupleGE(<<y, 2, 29>>, <<1582, 10, 15>>)
                           THEN GregorianLeap(y) ELSE JulianLeap(y))
    /\ ~(y = 1582 /\ m = 10 /\ d \in 5..14)

-----------------------------------------------------------------------------
(* C1: under the default calendar RJD(JD(y, m, d)) = (y, m, d) for every   *)
(* valid civil date with y in -4712..9999 that is not in the reform gap:   *)
(* JD accepts the date and RJD of the day number gives the date back.      *)
C1_RoundTripDate ==
    /\ (DefaultCalendar /\ AfterJD /\ ValidCivilDate(arg[1], arg[2], arg[3]))
           => out.err = "none"
    /\ (DefaultCalendar /\ AfterRJDofJD) => out = Ok(chain.arg)

C1_Witness ==
    /\ DefaultCalendar /\ AfterRJDofJD
    /\ chain.arg = <<1582, 10, 15>>
    /\ arg = <<2299161>>
    /\ out = Ok(<<1582, 10, 15>>)

C3_ReformGap ==
    LET InOct1582 == Len(arg) = 3 /\ arg[1] = 1582 /\ arg[2] = 10 /\ arg[3] \in 1..31
        InGap == arg[3] \in 5..14
    IN  /\ (DefaultCalendar /\ AfterJD /\ InOct1582) =>
              /\ InGap => out = Raise("ValueError")
              /\ ~InGap => out.err = "none"
              /\ arg[3] = 15 => Calendar_JD(1582, 10, 4) = Ok(<<out.val[1] - 1>>)
        /\ (op = "MeeusJD" /\ InOct1582) =>
              /\ InGap => out = Raise("AssertionError")
              /\ ~InGap => out.err = "none"
              /\ arg[3] = 15 => JD(1582, 10, 4) = Ok(<<out.val[1] - 2>>)
        /\ (op = "MeeusMJD" /\ InOct1582) =>
              /\ InGap => out = Raise("AssertionError")
              /\ ~InGap => out.err = "none"
              /\ arg[3] = 15 => MJD(1582, 10, 4) = Ok(<<out.val[1] - 1>>)

C3_Witness ==
    /\ DefaultCalendar /\ AfterJD
    /\ arg = <<1582, 10, 10>>
    /\ out = Raise("ValueError")

(* dates to compare a date with: every day of its month and of the months *)
(* before and after it, and the first and last day of every sampled year  *)
CompareDates(a) ==
    LET k0 == 12 * a[1] + a[2] - 1
    IN  {<<k \div 12, (k % 12) + 1, d>> : k \in (k0 - 1)..(k0 + 1), d \in 1..31}
        \cup {<<y, 1, 1>> : y \in Years} \cup {<<y, 12, 31>> : y \in Years}

(* C4: the day number is strictly monotonic in civil-date order across the *)
(* reform: under the default calendar, for two dates a and b that JD       *)
(* accepts, a < b in (year, month, day) order iff JD(a) < JD(b).           *)
C4_Monotonic ==
    (DefaultCalendar /\ AfterJD /\ out.err = "none") =>
        \A b \in CompareDates(arg) :
            LET r == Calendar_JD(b[1], b[2], b[3])
            IN  r.err = "none" => (TupleLT(arg, b) <=> out.val[1] < r.val[1])

C4_Witness ==
    /\ DefaultCalendar /\ AfterJD
    /\ arg = <<1582, 10, 4>>
    /\ out = Ok(<<2299160>>)
    /\ <<1582, 10, 15>> \in CompareDates(arg)
    /\ Calendar_JD(1582, 10, 15) = Ok(<<2299161>>)

(* the leap-year rule in force for a year under the engine's reform date *)
ActiveLeap(y) ==
    IF TupleGE(<<y, 2, 29>>, gregorian_reform_date)
    THEN GregorianLeap(y) ELSE JulianLeap(y)

(* C5: out-of-range input is surfaced as ValueError, never clamped:        *)
(* Calendar.JD raises ValueError and returns nothing when the year is      *)
(* outside -4712..9999, the month outside 1..12 or the day outside         *)
(* 1..days-in-month under the active calendar; Calendar.RJD validates its  *)
(* result, so it never returns a date outside -4712..9999 and, under the   *)
(* default calendar, raises ValueError for every jd below JD(-4712,1,1) or *)
(* above JD(9999,12,31).                                                   *)
C5_OutOfRangeRaises ==
    /\ (impl = "calendar" /\ AfterJD
          /\ ~(/\ arg[1] \in MINYEAR..MAXYEAR
               /\ arg[2] \in 1..12
               /\ arg[3] \in 1..MonthLength(arg[2], ActiveLeap(arg[1]))))
           => out = Raise("ValueError")
    /\ (impl = "calendar" /\ op = "RJD") =>
           \/ out = Raise("ValueError")
           \/ out.err = "none" /\ out.val[1] \in MINYEAR..MAXYEAR
                               /\ out.val[2] \in 1..12
                               /\ out.val[3] \in 1..MonthLength(out.val[2], ActiveLeap(out.val[1]))
    /\ (DefaultCalendar /\ AfterRJD
          /\ (arg[1] < _JD(-4712, 1, 1) \/ arg[1] > _GD(9999, 12, 31)))
           => out = Raise("ValueError")

C5_Witness ==
    /\ DefaultCalendar /\ AfterRJD
    /\ arg = <<_GD(9999, 12, 31) + 1>>
    /\ out = Raise("ValueError")

(* C6: is_leapyear(year) applies the Gregorian rule exactly when           *)
(* (year, 2, 29) >= the active reform date and the Julian rule otherwise,  *)
(* and Calendar.JD accepts February 29 accordingly: only in years that are *)
(* leap under the active rule, and in all of them when the engine is       *)
(* default, Julian or Gregorian.  Default: 1500-02-29 accepted, 1700-02-29 *)
(* and 1900-02-29 rejected; after setJulian() 1900-02-29 accepted; after   *)
(* setGregorian() 1500-02-29 rejected.                                     *)
C6_LeapYearFollowsReform ==
    LET Feb29 == Len(arg) = 3 /\ arg[2] = 2 /\ arg[3] = 29 /\ arg[1] \in MINYEAR..MAXYEAR
    IN  /\ op = "is_leapyear" => out = Ok(<<IF ActiveLeap(arg[1]) THEN 1 ELSE 0>>)
        /\ (impl = "calendar" /\ AfterJD /\ Feb29) =>
              /\ out.err = "none" => ActiveLeap(arg[1])
              /\ ~ActiveLeap(arg[1]) => out = Raise("ValueError")
              /\ (lastset.call # "setMixed" /\ ActiveLeap(arg[1])) => out.err = "none"
              /\ (lastset.call = "setDefault" /\ arg[1] = 1500) => out.err = "none"
              /\ (lastset.call = "setDefault" /\ arg[1] \in {1700, 1900})
                     => out = Raise("ValueError")
              /\ (lastset.call = "setJulian" /\ arg[1] = 1900) => out.err = "none"
              /\ (lastset.call = "setGregorian" /\ arg[1] = 1500)
                     => out = Raise("ValueError")

C6_Witness ==
    /\ impl = "calendar" /\ lastset.call = "setJulian" /\ AfterJD
    /\ arg = <<1900, 2, 29>>
    /\ out.err = "none"

(* dates of the proleptic Julian and the proleptic Gregorian calendar *)
ValidJulianDate(y, m, d) ==
    /\ y \in MINYEAR..MAXYEAR
    /\ m \in 1..12
    /\ d \in 1..MonthLength(m, JulianLeap(y))

ValidGregorianDate(y, m, d) ==
    /\ y \in MINYEAR..MAXYEAR
    /\ m \in 1..12
    /\ d \in 1..MonthLength(m, GregorianLeap(y))

(* C7: after setJulian() the whole supported range is Julian: for every    *)
(* valid proleptic Julian date with y in -4712..9999 Calendar.JD is the    *)
(* proleptic Julian day number _JD and rejects nothing, Calendar.RJD(jd)   *)
(* is the proleptic Julian inverse _RJD(jd) for every jd in the range, and *)
(* RJD(JD(y, m, d)) = (y, m, d).                                           *)
C7_JulianWholeRange ==
    (impl = "calendar" /\ lastset.call = "setJulian") =>
        /\ (AfterJD /\ ValidJulianDate(arg[1], arg[2], arg[3]))
               => out = Ok(<<_JD(arg[1], arg[2], arg[3])>>)
        /\ (AfterRJD /\ _JD(-4712, 1, 1) <= arg[1] /\ arg[1] <= _JD(9999, 12, 31))
               => out = Ok(_RJD(arg[1]))
        /\ AfterRJDofJD => out = Ok(chain.arg)

(* C8: after setGregorian() the whole supported range is proleptic         *)
(* Gregorian: for every valid proleptic Gregorian date with y in           *)
(* -4712..9999 Calendar.JD is _GD and rejects nothing, Calendar.RJD(jd) is *)
(* _RGD(jd) for every jd in the range, and RJD(JD(y, m, d)) = (y, m, d).   *)
C8_GregorianWholeRange ==
    (impl = "calendar" /\ lastset.call = "setGregorian") =>
        /\ (AfterJD /\ ValidGregorianDate(arg[1], arg[2], arg[3]))
               => out = Ok(<<_GD(arg[1], arg[2], arg[3])>>)
        /\ (AfterRJD /\ _GD(-4712, 1, 1) <= arg[1] /\ arg[1] <= _GD(9999, 12, 31))
               => out = Ok(_RGD(arg[1]))
        /\ AfterRJDofJD => out = Ok(chain.arg)

C8_Witness ==
    /\ impl = "calendar" /\ lastset.call = "setGregorian" /\ AfterRJDofJD
    /\ chain.arg = <<1500, 2, 28>>
    /\ arg = <<_GD(1500, 2, 28)>>
    /\ out = Ok(<<1500, 2, 28>>)

(* the dates that could share a day number jd with the date a: every day  *)
(* of a's month and of the months before and after it, and the Julian and *)
(* the Gregorian reading of jd                                             *)
NearDates(a, jd) ==
    LET k0 == 12 * a[1] + a[2] - 1
    IN  {<<k \div 12, (k % 12) + 1, d>> : k \in (k0 - 1)..(k0 + 1), d \in 1..31}
        \cup {_RJD(jd), _RGD(jd)}

(* C9: dates are unique in every mixed calendar: for every reform date R   *)
(* accepted by setMixed, Calendar.JD gives no two distinct accepted dates  *)
(* the same day number, every accepted date satisfies RJD(JD(date)) =      *)
(* date, and the dates (valid in their fields) that JD rejects as          *)
(* nonexistent are exactly the Julian-labelled dates, those before R,      *)
(* whose Julian day number lies in [_GD(R), _JD(R)).                       *)
C9_MixedDatesUnique ==
    LET R == gregorian_reform_date
        FieldsValid == /\ arg[1] \in MINYEAR..MAXYEAR
                       /\ arg[2] \in 1..12
                       /\ arg[3] \in 1..MonthLength(arg[2], ActiveLeap(arg[1]))
        InGap == /\ TupleLT(arg, R)
                 /\ _GD(R[1], R[2], R[3]) <= _JD(arg[1], arg[2], arg[3])
                 /\ _JD(arg[1], arg[2], arg[3]) < _JD(R[1], R[2], R[3])
    IN  (impl = "calendar" /\ lastset.call \in {"setMixed", "setDefault"}) =>
            /\ AfterRJDofJD => out = Ok(chain.arg)
            /\ (AfterJD /\ out.err = "none") =>
                   \A b \in NearDates(arg, out.val[1]) \ {arg} :
                       Calendar_JD(b[1], b[2], b[3]) # out
            /\ (AfterJD /\ FieldsValid) => (out = Raise("ValueError") <=> InGap)
            /\ (AfterJD /\ FieldsValid /\ ~InGap) => out.err = "none"

C9_Witness ==
    /\ impl = "calendar" /\ lastset = [call |-> "setMixed", date |-> <<1700, 3, 1>>]
    /\ AfterJD
    /\ arg = <<1700, 2, 29>>
    /\ out = Raise("ValueError")
    /\ Calendar_JD(1700, 2, 18) = Ok(<<_GD(1700, 2, 28)>>)
    /\ Calendar_JD(1700, 3, 1) = Ok(<<_GD(1700, 2, 28) + 1>>)

(* C10: setMixed(y, m, d) raises AssertionError or ValueError for every    *)
(* reform date earlier than (200, 3, 1) and for every date that is not a   *)
(* valid proleptic Gregorian date, and a call that raised leaves           *)
(* _gregorian_reform_date and reform as they were before the call.         *)
C10_RejectedSetMixed ==
    /\ [](op = "setMixed" =>
            ((TupleLT(arg, <<200, 3, 1>>)
                \/ ~(arg[2] \in 1..12 /\ arg[3] \in 1..MonthLength(arg[2], GregorianLeap(arg[1]))))
             => (out.err \in {"AssertionError", "ValueError"} /\ out.val = <<>>)))
    /\ [][(op' = "setMixed" /\ out'.err # "none")
            => UNCHANGED <<gregorian_reform_date, reform>>]_vars

C10_Witness ==
    /\ op = "setMixed"
    /\ arg = <<1700, 2, 29>>
    /\ out.err \in {"AssertionError", "ValueError"}
    /\ lastset.call = "setJulian"
    /\ gregorian_reform_date = <<10000, 1, 1>>
    /\ reform = <<1, -1>>

-----------------------------------------------------------------------------
(* a whole day number i in range(1721057, 2634166), given as i + 0.5 *)
InTestedRange(jd2) == jd2 % 2 = 1 /\ (jd2 - 1) \div 2 \in 1721057..(2634166 - 1)

(* C11: the module-level Meeus functions are mutually inverse at civil     *)
(* midnight.  For every valid civil date outside the reform gap with y in  *)
(* -4712..9999, JD accepts the date and RJD(JD(y, m, d)) = (y, m, d, 0).   *)
(* For every whole i in range(1721057, 2634166), RJD(i + 0.5) returns a    *)
(* date with day fraction 0 and JD of that date is i + 0.5 again.          *)
C11_MeeusRoundTrip ==
    /\ (op = "MeeusJD" /\ chain = NoCall /\ ValidCivilDate(arg[1], arg[2], arg[3]))
          => out.err = "none"
    /\ (op = "MeeusRJD" /\ chain.op = "MeeusJD"
            /\ ValidCivilDate(chain.arg[1], chain.arg[2], chain.arg[3]))
          => out = Ok(chain.arg \o <<0>>)
    /\ (op = "MeeusRJD" /\ chain = NoCall /\ InTestedRange(arg[1]))
          => out.err = "none" /\ out.val[4] = 0
    /\ (op = "MeeusJD" /\ chain.op = "MeeusRJD" /\ InTestedRange(chain.arg[1]))
          => out = Ok(chain.arg)

C11_Witness ==
    /\ op = "MeeusRJD"
    /\ chain.op = "MeeusJD"
    /\ chain.arg = <<1582, 10, 15>>
    /\ out = Ok(<<1582, 10, 15, 0>>)

-----------------------------------------------------------------------------
-----------------------------------------------------------------------------
(* C13: each proleptic calendar on its own is a bijection with its day     *)
(* numbers, with no gap.  For every valid proleptic Gregorian date with y  *)
(* in -4712..9999 RJDg(JDg(y, m, d)) = (y, m, d); for every valid          *)
(* proleptic Julian date RJDj(JDj(y, m, d)) = (y, m, d); and for every day *)
(* number jd of the calendar (a value JDg resp. JDj can return, a whole    *)
(* number plus 0.5) between the day numbers of -4712-01-01 and 9999-12-31, *)
(* JDg of the date RJDg(jd) is jd, resp. JDj of the date RJDj(jd) is jd.   *)
C13_ProlepticBijection ==
    /\ (op = "RJDg" /\ chain.op = "JDg"
            /\ ValidGregorianDate(chain.arg[1], chain.arg[2], chain.arg[3]))
          => out = Ok(chain.arg)
    /\ (op = "RJDj" /\ chain.op = "JDj"
            /\ ValidJulianDate(chain.arg[1], chain.arg[2], chain.arg[3]))
          => out = Ok(chain.arg)
    /\ (op = "JDg" /\ chain.op = "RJDg" /\ chain.arg[1] % 2 = 1
            /\ chain.arg[1] >= JDg(MINYEAR, 1, 1) /\ chain.arg[1] <= JDg(MAXYEAR, 12, 31))
          => /\ out = Ok(chain.arg)
             /\ ValidGregorianDate(arg[1], arg[2], arg[3])
    /\ (op = "JDj" /\ chain.op = "RJDj" /\ chain.arg[1] % 2 = 1
            /\ chain.arg[1] >= JDj(MINYEAR, 1, 1) /\ chain.arg[1] <= JDj(MAXYEAR, 12, 31))
          => /\ out = Ok(chain.arg)
             /\ ValidJulianDate(arg[1], arg[2], arg[3])

C13_Witness ==
    /\ op = "RJDg"
    /\ chain.op = "JDg"
    /\ chain.arg = <<-400, 2, 29>>
    /\ out = Ok(<<-400, 2, 29>>)

-----------------------------------------------------------------------------
-----------------------------------------------------------------------------
(* p(y) = y + floor(y/4) - floor(y/100) + floor(y/400) *)
IsoP(y) == y + (y \div 4) - (y \div 100) + (y \div 400)

(* C17: _iso_weeks_in_year(y) is 53 iff p(y) mod 7 = 4 or p(y-1) mod 7 = 3 *)
(* and 52 otherwise (2015 -> 53, 2016 -> 52).  It agrees with the Thursday *)
(* algorithm: for every year y from 1582 on it is the week number G2I      *)
(* gives to December 28 of y, and every week number G2I returns is in      *)
(* 1.._iso_weeks_in_year(iso_year).                                        *)
C17_IsoWeeksInYear ==
    /\ op = "_iso_weeks_in_year" =>
          /\ out = Ok(<<IF IsoP(arg[1]) % 7 = 4 \/ IsoP(arg[1] - 1) % 7 = 3
                        THEN 53 ELSE 52>>)
          /\ arg[1] = 2015 => out.val[1] = 53
          /\ arg[1] = 2016 => out.val[1] = 52
          /\ arg[1] \in 1582..MAXYEAR =>
                LET iso == G2I(arg[1], 12, 28)
                IN  iso.err = "none" /\ iso.val[1] = arg[1] /\ iso.val[2] = out.val[1]
    /\ (op = "G2I" /\ out.err = "none") =>
          out.val[2] \in 1.._iso_weeks_in_year(out.val[1])

C17_Witness ==
    /\ op = "_iso_weeks_in_year"
    /\ arg = <<2004>>
    /\ out = Ok(<<53>>)

-----------------------------------------------------------------------------
(* C18: ISO conversion follows the active calendar setting.  For every     *)
(* date that is valid under the currently set calendar, G2I raises         *)
(* ValueError exactly when the date is not Gregorian under that calendar   *)
(* and returns an ISO triple when it is: after setGregorian() or setMixed  *)
(* with an earlier reform date, dates before 1582-10-15 have ISO week      *)
(* dates; under the default calendar they are refused.                     *)
C18_IsoFollowsSetting ==
    (op = "G2I" /\ Calendar_JD(arg[1], arg[2], arg[3]).err = "none") =>
        IF is_gregorian(arg[1], arg[2], arg[3])
        THEN out.err = "none"
        ELSE out = Raise("ValueError")

-----------------------------------------------------------------------------
(* a valid date of the Gregorian era of the civil calendar *)
GregorianEraDate(a) ==
    /\ Len(a) = 3
    /\ ValidCivilDate(a[1], a[2], a[3])
    /\ TupleGE(a, <<1582, 10, 15>>)

(* the engine half of C15: I2G gives back what G2I was given *)
RoundTripG2I ==
    /\ (op = "G2I" /\ chain = NoCall /\ DefaultCalendar /\ GregorianEraDate(arg))
          => out.err = "none"
    /\ (op = "I2G" /\ chain.op = "G2I" /\ DefaultCalendar /\ GregorianEraDate(chain.arg))
          => out = Ok(chain.arg)

(* the Date half of C15: the date can be built, has an ISO calendar date   *)
(* and fromisocalendar gives the date back                                 *)
RoundTripIsocalendar ==
    /\ (op = "Date" /\ GregorianEraDate(arg)) => out = Ok(arg)
    /\ (op = "isocalendar" /\ GregorianEraDate(arg)) => out.err = "none"
    /\ (op = "fromisocalendar" /\ chain.op = "isocalendar" /\ GregorianEraDate(chain.arg))
          => out = Ok(chain.arg)

(* C15: ISO round trip.  For every valid Gregorian date d (on or after     *)
(* 1582-10-15, year <= 9999) under the default calendar,                   *)
(* Calendar.I2G of Calendar.G2I(d) is d, and likewise                      *)
(* Date.fromisocalendar of d.isocalendar() is d.                           *)
C15_IsoRoundTrip == RoundTripG2I /\ RoundTripIsocalendar

-----------------------------------------------------------------------------
(* The Thursday rule for a date with day number jd (jd mod 7 = 0 on a      *)
(* Monday) and ISO triple iso, in the calendar whose day numbers DayNo     *)
(* gives: the weekday is 1 (Monday)..7 (Sunday), the ISO year is the year  *)
(* of the Thursday of the week, and the week is 1 + the number of weeks    *)
(* from the first Thursday of that year to that Thursday.                  *)
ThursdayRule(jd, iso, DayNo(_, _, _)) ==
    LET thursday == jd + 4 - iso[3]
    IN  /\ iso[3] = (jd % 7) + 1
        /\ DayNo(iso[1], 1, 1) <= thursday
        /\ thursday <= DayNo(iso[1], 12, 31)
        /\ \E first \in 1..7 :
              /\ DayNo(iso[1], 1, first) % 7 = 3
              /\ (thursday - DayNo(iso[1], 1, first)) % 7 = 0
              /\ iso[2] = 1 + ((thursday - DayNo(iso[1], 1, first)) \div 7)

(* the ISO triples of the Mondays named in the claim *)
NamedMondays(date, iso) ==
    /\ date = <<2003, 12, 22>> => iso = <<2003, 52, 1>>
    /\ date = <<2003, 12, 29>> => iso = <<2004, 1, 1>>
    /\ date = <<2009, 12, 28>> => iso = <<2009, 53, 1>>
    /\ date = <<2010, 1, 4>> => iso = <<2010, 1, 1>>

(* the engine half of C16 *)
ThursdayRuleG2I ==
    (op = "G2I" /\ chain = NoCall /\ DefaultCalendar /\ GregorianEraDate(arg)) =>
        /\ out.err = "none"
        /\ ThursdayRule(_GD(arg[1], arg[2], arg[3]), out.val, _GD)
        /\ NamedMondays(arg, out.val)
        /\ out.val[3] = 1 =>
              \A k \in 0..6 :
                LET next == _RGD(_GD(arg[1], arg[2], arg[3]) + k)
                IN  next[1] <= MAXYEAR =>
                      G2I(next[1], next[2], next[3])
                          = Ok(<<out.val[1], out.val[2], 1 + k>>)

(* the day number of a civil date at noon: MJD + 2400001 *)
CivilDayNo(y, m, d) == MJD(y, m, d).val[1] + 2400001

(* the Date half of C16 *)
ThursdayRuleIsocalendar ==
    /\ (op = "Date" /\ GregorianEraDate(arg)) => out = Ok(arg)
    /\ (op = "isocalendar" /\ GregorianEraDate(arg)) =>
          /\ out.err = "none"
          /\ ThursdayRule(CivilDayNo(arg[1], arg[2], arg[3]), out.val, CivilDayNo)
          /\ NamedMondays(arg, out.val)

(* C16: G2I and Date.isocalendar implement the ISO-8601 Thursday rule for  *)
(* Gregorian dates: the ISO year is the calendar year of the Thursday of   *)
(* the date's Monday-to-Sunday week, the week number is 1 + (days from the *)
(* first Thursday of that ISO year to that Thursday) / 7 and the weekday   *)
(* is 1 (Monday)..7 (Sunday); the seven days from a Monday on share one    *)
(* (year, week) with weekdays 1..7; 2003-12-22 -> (2003,52,1), 2003-12-29  *)
(* -> (2004,1,1), 2009-12-28 -> (2009,53,1), 2010-01-04 -> (2010,1,1).     *)
C16_ThursdayRule == ThursdayRuleG2I /\ ThursdayRuleIsocalendar

-----------------------------------------------------------------------------
(* C19: Date + TimeDelta and Date - TimeDelta fail with an error and       *)
(* produce no date whenever the TimeDelta is not a whole number of days;   *)
(* when it is exactly n days (and the day self.mjd + n, respectively       *)
(* self.mjd - n, is in the supported range) the result is the date with    *)
(* that MJD.                                                               *)
C19_DateArithmetic ==
    (op \in {"__add__", "__sub__"} /\ chain.op = "Date") =>
        LET td == arg[1]
            n == td \div 24
            mjd == IF op = "__add__" THEN Date_mjd(chain.arg) + n
                   ELSE Date_mjd(chain.arg) - n
        IN  /\ td % 24 # 0 => out.err # "none"
            /\ (td % 24 = 0 /\ mjd \in min_mjd..max_mjd) =>
                  /\ out.err = "none"
                  /\ Date_mjd(out.val) = mjd

-----------------------------------------------------------------------------
(* the Date(y, m, d) half of C20 *)
RoundTripIsoformat ==
    /\ (op = "Date" /\ ValidCivilDate(arg[1], arg[2], arg[3])) => out = Ok(arg)
    /\ (op = "fromisoformat" /\ chain.op = "isoformat"
            /\ ValidCivilDate(chain.arg[1], chain.arg[2], chain.arg[3]))
          => out = Ok(chain.arg)

(* the week-date half of C20 *)
RoundTripIsoWeekString ==
    (op = "fromisoformat" /\ chain.op = "isocalendar" /\ GregorianEraDate(chain.arg))
        => out = Ok(chain.arg)

(* C20: ISO strings round-trip.  For every valid Date d with year in       *)
(* -4712..9999, negative years included, Date.fromisoformat(d.isoformat()) *)
(* is d; and for every date of the Gregorian era, parsing the ISO          *)
(* week-date string YYYY-Www-D (or the basic YYYYWwwD) built from          *)
(* d.isocalendar() gives d.                                                *)
C20_IsoStringRoundTrip == RoundTripIsoformat /\ RoundTripIsoWeekString

-----------------------------------------------------------------------------
(* the total of the keyword arguments kw, in nanoseconds *)
TotalOfKw(kw) ==
    LET N(x) == IntOf(x)
        E9 == IntOf(1000000000)
        Sec(x) == IntMul(N(x), E9)
    IN  IntAdd(N(kw[4]),
        IntAdd(IntMul(N(kw[3]), N(1000)),
        IntAdd(IntMul(N(kw[5]), N(1000000)),
        IntAdd(Sec(kw[2]),
        IntAdd(IntMul(N(60), Sec(kw[6])),
        IntAdd(IntMul(N(3600), Sec(kw[7])),
        IntAdd(IntMul(N(86400), Sec(kw[1])),
               IntMul(N(604800), Sec(kw[8])))))))))

(* days*86400*10^9 + seconds*10^9 + microseconds*10^3 + (T mod 1000) of a *)
(* TimeDelta t with total T                                                *)
TotalOfComponents(t) ==
    LET E9 == IntOf(1000000000)
    IN  IntAdd(IntMul(IntMul(IntOf(t.days), IntOf(86400)), E9),
        IntAdd(IntMul(IntOf(t.seconds), E9),
        IntAdd(IntMul(IntOf(t.microseconds), IntOf(1000)),
               IntDivMod(t._total_nanoseconds, IntOf(1000))[2])))

(* C21: TimeDelta normalizes by floor division to a canonical form.  For   *)
(* every TimeDelta that the constructor returns, of total T nanoseconds    *)
(* (the sum of its arguments, negative included),                          *)
(* days*86400*10^9 + seconds*10^9 + microseconds*10^3 + (T mod 1000) = T   *)
(* with 0 <= seconds < 86400 and 0 <= microseconds < 10^6, so that         *)
(* TimeDelta(days=-2, seconds=-1) has days <= -1 and seconds >= 0; and a   *)
(* == b is true exactly when the totals of a and b are equal, as for       *)
(* TimeDelta(hours=25) and TimeDelta(days=1, hours=1).                     *)
C21_CanonicalForm ==
    /\ (op = "TimeDelta" /\ out.err = "none") =>
        /\ out.val._total_nanoseconds = TotalOfKw(arg)
        /\ TotalOfComponents(out.val) = out.val._total_nanoseconds
        /\ 0 <= out.val.seconds /\ out.val.seconds < 86400
        /\ 0 <= out.val.microseconds /\ out.val.microseconds < 1000000
        /\ arg = <<-2, -1, 0, 0, 0, 0, 0, 0>> =>
                out.val.days <= -1 /\ out.val.seconds >= 0
    /\ op = "__eq__" =>
        /\ out.err = "none"
        /\ out.val = (arg[1]._total_nanoseconds = arg[2]._total_nanoseconds)
        /\ (arg[1]._total_nanoseconds = TotalOfKw(<<0, 0, 0, 0, 0, 0, 25, 0>>)
                /\ arg[2]._total_nanoseconds = TotalOfKw(<<1, 0, 0, 0, 0, 0, 1, 0>>))
              => out.val = TRUE

C21_Witness ==
    /\ op = "TimeDelta"
    /\ arg = <<-2, -1, 0, 0, 0, 0, 0, 0>>
    /\ out = Ok([days |-> -3, seconds |-> 86399, microseconds |-> 0,
                 _total_nanoseconds |-> TotalOfKw(arg)])

DeltaZero == TimeDelta_of(IntOf(0)).val

(* divmod(a, b) == (a // b, a % b), compared as Python compares the tuples *)
DivmodAgrees ==
    (op = "__divmod__" /\ arg[2]._total_nanoseconds.mag # <<>>) =>
        /\ out.err = "none"
        /\ TimeDelta_floordiv(arg[1], arg[2]) = Ok(out.val[1])
        /\ TimeDelta_mod(arg[1], arg[2]).err = "none"
        /\ TimeDelta_eq(TimeDelta_mod(arg[1], arg[2]).val, out.val[2])

(* q*b + r == a for q, r = divmod(a, b), where q*b + r exists *)
DivmodRecombines ==
    (op = "__add__" /\ chain.op = "__divmod__" /\ out.err = "none") =>
        TimeDelta_eq(out.val, chain.arg[1])

(* 0 <= r < b when b > 0, b < r <= 0 when b < 0, in the operators of      *)
(* TimeDelta                                                               *)
RemainderInRange ==
    (op = "__divmod__" /\ out.err = "none") =>
        /\ TimeDelta_compare("__gt__", arg[2], DeltaZero) =>
            /\ TimeDelta_compare("__le__", DeltaZero, out.val[2])
            /\ TimeDelta_compare("__lt__", out.val[2], arg[2])
        /\ TimeDelta_compare("__lt__", arg[2], DeltaZero) =>
            /\ TimeDelta_compare("__lt__", arg[2], out.val[2])
            /\ TimeDelta_compare("__le__", out.val[2], DeltaZero)

(* the same range, read on the totals in nanoseconds *)
RemainderInRangeOfTotals ==
    (op = "__divmod__" /\ out.err = "none") =>
        LET r == out.val[2]._total_nanoseconds
            b == arg[2]._total_nanoseconds
        IN  IF b.neg THEN IntCmp(b, r) < 0 /\ IntCmp(r, IntOf(0)) <= 0
            ELSE IntCmp(IntOf(0), r) <= 0 /\ IntCmp(r, b) < 0

(* (a + b) - b == a and -(-a) == a where nothing overflows *)
AddAndNegUndone ==
    /\ (op = "__sub__" /\ chain.op = "__add__" /\ out.err = "none") =>
        TimeDelta_eq(out.val, chain.arg[1])
    /\ (op = "__neg__" /\ chain.op = "__neg__" /\ out.err = "none") =>
        TimeDelta_eq(out.val, chain.arg[1])

(* C22: TimeDelta division is floor division, consistently across //, %   *)
(* and divmod.  For TimeDeltas a and b # 0, divmod(a, b) ==                *)
(* (a // b, a % b) == (q, r) with q*b + r == a and 0 <= r < b when b > 0   *)
(* (b < r <= 0 when b < 0), also for negative a; and (a + b) - b == a and  *)
(* -(-a) == a whenever no overflow occurs.                                 *)
C22_FloorDivision ==
    /\ DivmodAgrees
    /\ DivmodRecombines
    /\ RemainderInRange
    /\ AddAndNegUndone

(* the calls that return a TimeDelta *)
DeltaProducers ==
    {"TimeDelta", "__add__", "__sub__", "__neg__", "__mul__", "floordiv_int", "__mod__"}

(* the declared range in nanoseconds: DELTA_MAX_DAYS days, and the one    *)
(* hundred times larger figure of about 5.37*10^8 days                     *)
DeclaredMaximum == IntMul(IntOf(DELTA_MAX_DAYS), _DAY)
StatedMaximum == IntMul(IntOf(100), DeclaredMaximum)

(* TimeDelta.min <= t <= TimeDelta.max in the operators of TimeDelta *)
WithinMinMax(t) ==
    /\ TimeDelta_compare("__le__", TimeDelta_min, t)
    /\ TimeDelta_compare("__le__", t, TimeDelta_max)

(* every TimeDelta that exists lies between TimeDelta.min and TimeDelta.max *)
DeltasWithinMinMax ==
    (op \in DeltaProducers /\ out.err = "none") => WithinMinMax(out.val)

(* C23: TimeDelta magnitude is bounded by the declared range.  No         *)
(* constructor call and no +, -, *, // or unary - returns a TimeDelta      *)
(* whose magnitude exceeds the supported maximum (about 5.37*10^8 days,    *)
(* the larger of the declared figures): such a call raises OverflowError,  *)
(* and every TimeDelta t that exists has TimeDelta.min <= t <=             *)
(* TimeDelta.max.                                                          *)
C23_BoundedMagnitude ==
    (op \in DeltaProducers /\ out.err = "none") =>
        /\ IntCmp(IntAbs(out.val._total_nanoseconds), StatedMaximum) <= 0
        /\ WithinMinMax(out.val)

(* C24: the two Julian/Gregorian branch tests agree on every valid date.   *)
(* For a valid date (y in -4712..9999, outside the reform gap) the forward *)
(* heuristic (Y + M/12)*365.25 + D against 578140, as used by JD, MJD and  *)
(* is_gregorian, says Gregorian exactly when the date is on or after       *)
(* 1582-10-15, which is exactly when Z >= 2299161 (the test of RJD) holds  *)
(* for the day number of the date; the heuristic value is never equal to   *)
(* 578140, where '>' of is_gregorian and '<' of JD would disagree; and     *)
(* Calendar().is_gregorian gives the same answer.                          *)
C24_BranchTestsAgree ==
    (op \in {"MeeusJD", "MeeusMJD", "is_gregorian", "Calendar.is_gregorian"}
        /\ chain = NoCall /\ ValidCivilDate(arg[1], arg[2], arg[3])) =>
        LET onOrAfter == TupleGE(arg, <<1582, 10, 15>>)
        IN  /\ calendar_is_gregorian(arg[1], arg[2], arg[3]) = onOrAfter
            /\ MeeusJulianBranch(arg[1], arg[2], arg[3]) = ~onOrAfter
            /\ is_gregorian(arg[1], arg[2], arg[3]) = onOrAfter
            /\ op \in {"is_gregorian", "Calendar.is_gregorian"} =>
                    out = Ok(onOrAfter)
            /\ op = "MeeusJD" =>
                    /\ out.err = "none"
                    /\ (TruncDiv(out.val[1] + 1, 2) >= 2299161) = onOrAfter
            /\ op = "MeeusMJD" =>
                    /\ out.err = "none"
                    /\ (out.val[1] + 2400001 >= 2299161) = onOrAfter

C24_Witness ==
    /\ op = "MeeusJD"
    /\ arg = <<1582, 10, 15>>
    /\ out = Ok(<<2 * 2299161 - 1>>)

(* reference values of test_JD: date and integer day number *)
TestJDReferences ==
    { <<2025, 1, 11, 2460687>>, <<2000, 1, 1, 2451545>>, <<1999, 1, 1, 2451180>>,
      <<1987, 1, 27, 2446823>>, <<1987, 6, 19, 2446966>>, <<1988, 1, 27, 2447188>>,
      <<1988, 6, 19, 2447332>>, <<1900, 1, 1, 2415021>>, <<1600, 1, 1, 2305448>>,
      <<1600, 12, 31, 2305813>>, <<837, 4, 10, 2026872>>, <<-123, 12, 31, 1676497>>,
      <<-122, 1, 1, 1676498>>, <<-1000, 7, 12, 1356001>>, <<-1000, 2, 29, 1355867>>,
      <<-1001, 8, 18, 1355672>>, <<-4712, 1, 1, 0>> }

(* C25: the three day-number implementations are aligned to one scale.    *)
(* For every valid date on or before 1582-10-04 JDj(y, m, d) is the Meeus  *)
(* JD(y, m, d); for every valid date on or after 1582-10-15 JDg(y, m, d)   *)
(* is JD(y, m, d); and under the default calendar Calendar.JD(y, m, d),    *)
(* computed with JD0 = 1721423 and GD0 = JD0 + 2, is JD(y, m, d) + 0.5,    *)
(* a whole number, as in the reference values of test_JD (2000-01-01 ->    *)
(* 2451545, 837-04-10 -> 2026872, -1000-02-29 -> 1355867).                 *)
C25_AlignedScales ==
    /\ (op = "JDj" /\ ValidCivilDate(arg[1], arg[2], arg[3])
            /\ ~TupleGE(arg, <<1582, 10, 15>>)) =>
        JD(arg[1], arg[2], arg[3]) = out
    /\ (op = "JDg" /\ ValidCivilDate(arg[1], arg[2], arg[3])
            /\ TupleGE(arg, <<1582, 10, 15>>)) =>
        JD(arg[1], arg[2], arg[3]) = out
    /\ (op = "MeeusJD" /\ ValidCivilDate(arg[1], arg[2], arg[3])) =>
        /\ out.err = "none"
        /\ out.val[1] = IF TupleGE(arg, <<1582, 10, 15>>)
                        THEN JDg(arg[1], arg[2], arg[3])
                        ELSE JDj(arg[1], arg[2], arg[3])
    /\ (DefaultCalendar /\ AfterJD /\ ValidCivilDate(arg[1], arg[2], arg[3])) =>
        /\ out.err = "none"
        /\ JD(arg[1], arg[2], arg[3]) = Ok(<<2 * out.val[1] - 1>>)
        /\ \A ref \in TestJDReferences :
            arg = SubSeq(ref, 1, 3) => out.val[1] = ref[4]

C25_Witness ==
    /\ DefaultCalendar /\ AfterJD
    /\ arg = <<-1000, 2, 29>>
    /\ out = Ok(<<1355867>>)
    /\ JDj(-1000, 2, 29) = 2 * 1355867 - 1

(* a valid date of the proleptic Gregorian calendar *)
ValidGregorianTriple(a) ==
    /\ a[2] \in 1..12
    /\ a[3] >= 1
    /\ a[3] <= MonthLength(a[2], GregorianLeap(a[1]))

(* the date I2G returns is a valid proleptic Gregorian date *)
I2GReturnsDate ==
    (op = "I2G" /\ chain = NoCall /\ out.err = "none") =>
        ValidGregorianTriple(out.val)

(* G2I of the date is the triple, where the date is Gregorian and in range *)
I2GUndoneByG2I ==
    (op = "I2G" /\ chain = NoCall /\ out.err = "none" /\ DefaultCalendar
        /\ TupleGE(out.val, <<1582, 10, 15>>) /\ out.val[1] <= MAXYEAR) =>
        G2I(out.val[1], out.val[2], out.val[3]) = Ok(arg)

(* C26: I2G is the inverse of G2I and stays in range.  For every ISO       *)
(* triple (y, w, d) that Calendar.I2G accepts (y in -4712..9999, 1 <= w <= *)
(* _iso_weeks_in_year(y), 1 <= d <= 7) the returned date is a valid        *)
(* proleptic Gregorian date with its year in -4712..9999, never 10000 or   *)
(* -4713, and whenever that date is Gregorian under the default calendar,  *)
(* G2I of it returns (y, w, d).                                            *)
C26_I2GInRange ==
    (op = "I2G" /\ chain = NoCall /\ out.err = "none") =>
        /\ ValidGregorianTriple(out.val)
        /\ MINYEAR <= out.val[1] /\ out.val[1] <= MAXYEAR
        /\ (DefaultCalendar /\ TupleGE(out.val, <<1582, 10, 15>>)) =>
                G2I(out.val[1], out.val[2], out.val[3]) = Ok(arg)

(* C27: dtmath.Calendar.JD rejects with an assertion failure every date    *)
(* whose day exceeds the number of days of its month, in the Gregorian and *)
(* in the Julian branch: only February gains a 29th day in a leap year of  *)
(* the branch, so day 31 of April and day 32 of January are rejected in    *)
(* every year, Julian leap years included.                                 *)
C27_DayOfMonthChecked ==
    (impl = "dtmath" /\ AfterJD /\ arg[2] \in 1..12) =>
        LET leap == IF is_gregorian(arg[1], arg[2], arg[3])
                    THEN GregorianLeap(arg[1]) ELSE JulianLeap(arg[1])
        IN  /\ arg[3] > MonthLength(arg[2], leap) => out = Raise("AssertionError")
            /\ (arg[2] = 4 /\ arg[3] = 31) => out = Raise("AssertionError")
            /\ (arg[2] = 1 /\ arg[3] = 32) => out = Raise("AssertionError")

SetCalls == {"setDefault", "setJulian", "setGregorian", "setMixed"}

(* the pair (_gregorian_reform_date, reform) that a successful call name   *)
(* with arguments a is to leave behind                                     *)
ConfigurationOf(name, a) ==
    CASE name = "setDefault" -> << <<1582, 10, 15>>, <<2299161, 2299171>> >>
      [] name = "setJulian" -> << <<MAXYEAR + 1, 1, 1>>, <<1, -1>> >>
      [] name = "setGregorian" -> << <<-4712, 1, 1>>, <<-1, -1>> >>
      [] name = "setMixed" ->
            << a, <<_GD(a[1], a[2], a[3]), _JD(a[1], a[2], a[3])>> >>

(* C28: the configuration of the engine is memoryless.  A freshly          *)
(* constructed Calendar has reform date (1582, 10, 15) and gap (2299161,   *)
(* 2299171); every successful setDefault / setJulian / setGregorian /      *)
(* setMixed call leaves the pair (_gregorian_reform_date, reform) that     *)
(* belongs to that call alone, whatever was set before, setDefault() the   *)
(* pair of a fresh Calendar; and a rejected set call, JD, RJD,             *)
(* is_leapyear, G2I and I2G leave the pair unchanged.                      *)
C28_Memoryless ==
    /\ <<gregorian_reform_date, reform>> = ConfigurationOf("setDefault", <<>>)
    /\ [][ /\ (op' \in SetCalls /\ out'.err = "none") =>
                <<gregorian_reform_date', reform'>> = ConfigurationOf(op', arg')
           /\ (op' \notin SetCalls \/ out'.err # "none") =>
                UNCHANGED <<gregorian_reform_date, reform>> ]_vars

C28_Witness ==
    /\ op = "JD"
    /\ lastset = [call |-> "setMixed", date |-> <<1700, 3, 1>>]
    /\ gregorian_reform_date = <<1700, 3, 1>>
    /\ reform = <<_GD(1700, 3, 1), _JD(1700, 3, 1)>>

(* C29: reconfiguration is atomic for the concurrent readers of a shared   *)
(* Calendar.  In every reachable state, the states between the two         *)
(* attribute assignments of a set call included, the gap tuple reform      *)
(* belongs to the same configuration as _gregorian_reform_date, so that a  *)
(* JD or RJD call interleaved with a set call never computes with the      *)
(* reform date of one configuration and the gap of another.                *)
C29_AtomicReconfiguration ==
    \E name \in SetCalls :
        <<gregorian_reform_date, reform>>
            = ConfigurationOf(name, gregorian_reform_date)

(* the elements of l that are <= x *)
NotAbove(l, x) == {l[i] : i \in {j \in 1..Len(l) : l[j] <= x}}

(* the largest element of the non-empty set S *)
Largest(S) == CHOOSE v \in S : \A w \in S : w <= v

(* bisect has returned what the claim says *)
BisectResult ==
    (op = "bisect" /\ out.err # "running") =>
        /\ arg[1][1] > arg[2] => out = Ok(<<>>)
        /\ arg[1][1] <= arg[2] => out = Ok(<<Largest(NotAbove(arg[1], arg[2]))>>)
        /\ arg[1] = TestList =>
            /\ arg[2] = -10 => out = Ok(<<>>)
            /\ arg[2] = -7 => out = Ok(<<-7>>)
            /\ arg[2] = 19 => out = Ok(<<16>>)
            /\ arg[2] = 255 => out = Ok(<<255>>)

(* C30: bisect(l, x) on a non-empty ascending list l always terminates and *)
(* returns the largest element of l that is <= x, and None when l[0] > x;  *)
(* on [-7, -1, 2, 4, 9, 16, 25, 32, 64, 128, 255] bisect(-10) is None,     *)
(* bisect(-7) is -7, bisect(19) is 16 and bisect(255) is 255.              *)
C30_Bisect ==
    /\ []BisectResult
    /\ (op = "bisect") ~> (op = "bisect" /\ out.err # "running")

C30_Witness ==
    /\ op = "bisect"
    /\ arg = <<TestList, 19>>
    /\ out = Ok(<<16>>)


=============================================================================
